---- MODULE Spec2Model ----
(***************************************************************************)
(* State-machine model of the LED library (src/src/led.c, V1.2.0 part,     *)
(* lines 1-1128): the per-LED records g_led[], the initialisation guard,   *)
(* the periodic handler led_hndl and the command / query API.              *)
(*                                                                         *)
(* Numbers.  The code computes in float32_t.                               *)
(*   - Time is in seconds and the handler period LED_HNDL_PERIOD_S is one  *)
(*     second (LED_CFG_HNDL_PERIOD_MS = 1000); the times the model passes  *)
(*     are whole seconds, so every time the code holds is an integer.      *)
(*     They stay below 2^24, where float32_t holds every integer.          *)
(*   - Duty cycles (percent) and ramp rates (percent per second squared)   *)
(*     are float32_t values (IEEE 754 binary32), modelled as records       *)
(*     [num, exp] of value num * 2^exp with an odd mantissa num of at most *)
(*     24 bits; exp = 128 marks +inf, -inf and NaN.  The operators f32_add *)
(*     .. f32_ge compute as the code does: every sum, difference, product  *)
(*     and quotient is rounded to the nearest float32_t, ties to the even  *)
(*     mantissa, with subnormal results below 2^-126 and an infinity from  *)
(*     2^128 on.  The two zeros are one value: the code compares them as   *)
(*     equal and never divides by a negative zero.                         *)
(* Assertions (LED_ASSERT) are compiled out, as in a release build.        *)
(***************************************************************************)
EXTENDS Integers, Sequences, FiniteSets, TLC

----------------------------------------------------------------------------
(* Configuration (led_cfg.h) and constants of led.c / led.h *)

eLED_NUM_OF == 2

LedNum == 0 .. (eLED_NUM_OF - 1)

LED_CFG_HNDL_PERIOD_MS == 1000

LED_HNDL_PERIOD_S == LED_CFG_HNDL_PERIOD_MS \div 1000

----------------------------------------------------------------------------
(* float32_t *)

\* the exponent that marks +inf, -inf and NaN
F32_EXP_INF == 128

\* the exponent of the smallest (subnormal) float32_t, 2^-149
F32_EXP_MIN == 0 - 149

\* the number of significant bits of a float32_t
F32_MANT_DIG == 24

\* the values of float32_t: num * 2^exp with num odd and |num| < 2^24, zero
\* as [0, 0], and with exp = F32_EXP_INF: +inf (num 1), -inf (num -1) and
\* NaN (num 0)
F32 == [ num : Int, exp : Int ]

f32_zero == [ num |-> 0, exp |-> 0 ]

f32_inf(sign) == [ num |-> sign, exp |-> F32_EXP_INF ]

f32_nan == [ num |-> 0, exp |-> F32_EXP_INF ]

f32_is_nan(x) == x.exp = F32_EXP_INF /\ x.num = 0

f32_abs(a) == IF a < 0 THEN 0 - a ELSE a

f32_sgn(a) == IF a < 0 THEN 0 - 1 ELSE IF a > 0 THEN 1 ELSE 0

\* the number of bits of n >= 0
f32_bits[n \in Nat] == IF n = 0 THEN 0 ELSE 1 + f32_bits[n \div 2]

\* num * 2^exp with an odd num
f32_norm[num \in Int, exp \in Int] ==
    IF num = 0
    THEN f32_zero
    ELSE IF num % 2 = 0
    THEN f32_norm[num \div 2, exp + 1]
    ELSE [ num |-> num, exp |-> exp ]

\* sign * num * 2^exp for num <= 2^24: an infinity from 2^128 on
f32_pack[sign \in Int, num \in Nat, exp \in Int] ==
    IF num # 0 /\ f32_bits[num] + exp > F32_EXP_INF
    THEN f32_inf(sign)
    ELSE f32_norm[sign * num, exp]

\* sign * (num + s) * 2^exp with the lowest n bits of num rounded away, to
\* the nearest, ties to the even mantissa; 0 < s < 1 if sticky, s = 0 if not
f32_shift[sign \in Int, num \in Nat, exp \in Int, sticky \in BOOLEAN, n \in Nat] ==
    IF n > 30
    THEN f32_zero
    ELSE f32_pack[sign,
                  num \div 2^n
                    + (IF /\ n > 0
                          /\ \/ num % 2^n > 2^(n - 1)
                             \/ /\ num % 2^n = 2^(n - 1)
                                /\ (sticky \/ (num \div 2^n) % 2 = 1)
                       THEN 1 ELSE 0),
                  exp + n]

\* the number of low bits a mantissa of len bits at exponent exp has to
\* lose: a float32_t keeps F32_MANT_DIG bits, and none below 2^F32_EXP_MIN
f32_drop[len \in Nat, exp \in Int] ==
    IF exp + len - F32_MANT_DIG > F32_EXP_MIN
    THEN (IF len > F32_MANT_DIG THEN len - F32_MANT_DIG ELSE 0)
    ELSE (IF exp < F32_EXP_MIN
          THEN (IF F32_EXP_MIN - exp > len THEN 31 ELSE F32_EXP_MIN - exp)
          ELSE 0)

\* the float32_t nearest to sign * (num + s) * 2^exp, for 0 <= num < 2^30
f32_round[sign \in Int, num \in Nat, exp \in Int, sticky \in BOOLEAN] ==
    IF /\ num < 2^F32_MANT_DIG
       /\ exp >= F32_EXP_MIN
       /\ exp <= F32_EXP_INF - F32_MANT_DIG
    THEN f32_norm[sign * num, exp]
    ELSE f32_shift[sign, num, exp, sticky, f32_drop[f32_bits[num], exp]]

\* the float32_t of integer n
f32(n) == f32_round[f32_sgn(n), f32_abs(n), 0, FALSE]

f32_negate[a \in F32] == [ num |-> 0 - a.num, exp |-> a.exp ]

f32_neg(x) == f32_negate[x]

\* the float32_t nearest to (t + s) * 2^exp for an integer t
f32_round_int[t \in Int, exp \in Int, sticky \in BOOLEAN] ==
    f32_round[f32_sgn(t),
              IF t < 0 /\ sticky THEN 0 - t - 1 ELSE f32_abs(t),
              exp, sticky]

\* hi + lo with hi shifted up by k bits and lo shifted under it, the bits
\* of lo shifted out kept as the sticky bit
f32_add_at[hi \in F32, lo \in F32, k \in Nat, r \in Nat] ==
    f32_round_int[hi.num * 2^k + lo.num \div 2^r, hi.exp - k,
                  lo.num % 2^r # 0]

\* hi + lo where the sum does not fit 30 bits: hi, of len bits, on 29 bits
f32_add_far[hi \in F32, lo \in F32, d \in Nat, len \in Nat] ==
    f32_add_at[hi, lo, 29 - len,
               IF d - (29 - len) > F32_MANT_DIG
               THEN F32_MANT_DIG ELSE d - (29 - len)]

\* hi + lo for finite hi, lo # 0 with hi.exp >= lo.exp and d the difference
\* of the exponents: an exact sum where it fits 30 bits
f32_add_ord[hi \in F32, lo \in F32, d \in Nat] ==
    IF d <= 29 /\ f32_abs(hi.num) < 2^(29 - d)
    THEN f32_add_at[hi, lo, d, 0]
    ELSE f32_add_far[hi, lo, d, f32_bits[f32_abs(hi.num)]]

f32_sum[a \in F32, b \in F32] ==
    IF f32_is_nan(a) \/ f32_is_nan(b)
    THEN f32_nan
    ELSE IF a.exp = F32_EXP_INF /\ b.exp = F32_EXP_INF
    THEN (IF a.num = b.num THEN a ELSE f32_nan)
    ELSE IF a.exp = F32_EXP_INF THEN a
    ELSE IF b.exp = F32_EXP_INF THEN b
    ELSE IF a.num = 0 THEN b
    ELSE IF b.num = 0 THEN a
    ELSE IF a.exp >= b.exp
    THEN f32_add_ord[a, b, a.exp - b.exp]
    ELSE f32_add_ord[b, a, b.exp - a.exp]

f32_add(x, y) == f32_sum[x, y]

f32_sub(x, y) == f32_sum[x, f32_negate[y]]

\* the float32_t nearest to sign * (w[1] + s) * 2^(exp + w[2]), with a
\* remainder s > 0 if w[3]
f32_round_rem[sign \in Int, exp \in Int, w \in Nat \X Int \X BOOLEAN] ==
    f32_round[sign, w[1], exp + w[2], w[3]]

\* hi * 2^24 + lo without its sh lowest bits, for lo < 2^24: << the upper
\* bits, sh, whether one of the bits left out is set >>
f32_mul_top[hi \in Nat, lo \in Nat, sh \in Nat] ==
    << hi * 2^(24 - sh) + lo \div 2^sh, sh, lo % 2^sh # 0 >>

\* hh * 2^24 + mid * 2^12 + ll as hi * 2^24 + lo with lo < 2^24, cut to its
\* upper 30 bits
f32_mul_join[hh \in Nat, mid \in Nat, ll \in Nat] ==
    f32_mul_top[hh + mid \div 2^12 + (ll + (mid % 2^12) * 2^12) \div 2^24,
                (ll + (mid % 2^12) * 2^12) % 2^24,
                f32_bits[hh + mid \div 2^12
                            + (ll + (mid % 2^12) * 2^12) \div 2^24] - 6]

\* a * b for mantissas 0 < a, b < 2^24: exact where the product fits 30
\* bits, else its upper 30 bits, summed from the products of 12-bit halves
f32_mul_wide[a \in Nat, b \in Nat] ==
    IF a <= (2^30 - 1) \div b
    THEN << a * b, 0, FALSE >>
    ELSE f32_mul_join[(a \div 2^12) * (b \div 2^12),
                      (a \div 2^12) * (b % 2^12) + (a % 2^12) * (b \div 2^12),
                      (a % 2^12) * (b % 2^12)]

f32_product[a \in F32, b \in F32] ==
    IF f32_is_nan(a) \/ f32_is_nan(b)
    THEN f32_nan
    ELSE IF a.exp = F32_EXP_INF \/ b.exp = F32_EXP_INF
    THEN (IF a.num = 0 \/ b.num = 0
          THEN f32_nan
          ELSE f32_inf(f32_sgn(a.num) * f32_sgn(b.num)))
    ELSE IF a.num = 0 \/ b.num = 0
    THEN f32_zero
    ELSE f32_round_rem[f32_sgn(a.num) * f32_sgn(b.num), a.exp + b.exp,
                       f32_mul_wide[f32_abs(a.num), f32_abs(b.num)]]

f32_mul(x, y) == f32_product[x, y]

\* the long division by b > 0 from quotient q and remainder r on, n bits
\* after the binary point: << the quotient to at least 26 bits (or exact),
\* minus the number of its bits after the binary point, whether a remainder
\* is left >>
f32_div_long[q \in Nat, r \in Nat, n \in Nat, b \in Nat] ==
    IF r = 0 \/ q >= 2^26
    THEN << q, 0 - n, r # 0 >>
    ELSE IF 2 * r >= b
    THEN f32_div_long[2 * q + 1, 2 * r - b, n + 1, b]
    ELSE f32_div_long[2 * q, 2 * r, n + 1, b]

\* a / b; a zero divisor counts as +0: the code divides by the product of
\* two equal times and by 2.0f only
f32_quotient[a \in F32, b \in F32] ==
    IF f32_is_nan(a) \/ f32_is_nan(b)
    THEN f32_nan
    ELSE IF a.exp = F32_EXP_INF
    THEN (IF b.exp = F32_EXP_INF
          THEN f32_nan
          ELSE f32_inf(IF b.num < 0 THEN 0 - a.num ELSE a.num))
    ELSE IF b.exp = F32_EXP_INF
    THEN f32_zero
    ELSE IF b.num = 0
    THEN (IF a.num = 0 THEN f32_nan ELSE f32_inf(f32_sgn(a.num)))
    ELSE f32_round_rem[f32_sgn(a.num) * f32_sgn(b.num), a.exp - b.exp,
                       f32_div_long[f32_abs(a.num) \div f32_abs(b.num),
                                    f32_abs(a.num) % f32_abs(b.num), 0,
                                    f32_abs(b.num)]]

f32_div(x, y) == f32_quotient[x, y]

\* -1, 0, 1 as m * 2^d is less than, equal to, greater than n, for
\* 0 < m, n < 2^24 and d >= 0
f32_cmp_mag[m \in Nat, d \in Nat, n \in Nat] ==
    IF d >= F32_MANT_DIG \/ m >= 2^(F32_MANT_DIG - d)
    THEN 1
    ELSE f32_sgn(m * 2^d - n)

\* -1, 0, 1 as a is less than, equal to, greater than b; neither is a NaN
f32_cmp[a \in F32, b \in F32] ==
    IF a = b THEN 0
    ELSE IF a.exp = F32_EXP_INF THEN a.num
    ELSE IF b.exp = F32_EXP_INF THEN 0 - b.num
    ELSE IF f32_sgn(a.num) # f32_sgn(b.num)
    THEN (IF a.num < b.num THEN 0 - 1 ELSE 1)
    ELSE IF a.exp >= b.exp
    THEN f32_sgn(a.num)
           * f32_cmp_mag[f32_abs(a.num), a.exp - b.exp, f32_abs(b.num)]
    ELSE 0 - f32_sgn(a.num)
               * f32_cmp_mag[f32_abs(b.num), b.exp - a.exp, f32_abs(a.num)]

\* every comparison with a NaN is false, but for !=
f32_less[a \in F32, b \in F32] ==
    ~f32_is_nan(a) /\ ~f32_is_nan(b) /\ f32_cmp[a, b] < 0

f32_less_eq[a \in F32, b \in F32] ==
    ~f32_is_nan(a) /\ ~f32_is_nan(b) /\ f32_cmp[a, b] <= 0

f32_lt(x, y) == f32_less[x, y]

f32_le(x, y) == f32_less_eq[x, y]

f32_gt(x, y) == f32_less[y, x]

f32_ge(x, y) == f32_less_eq[y, x]

f32_differ[a \in F32, b \in F32] == f32_is_nan(a) \/ f32_is_nan(b) \/ a # b

f32_ne(x, y) == f32_differ[x, y]

\* the literal 0.001f: 0x1.0624dep-10, the float32_t nearest to 1/1000
f32_0_001 == [ num |-> 8589935, exp |-> 0 - 33 ]

\* p percent
Percent(p) == f32(p)

LED_FADE_IN_TIME_S == 1

LED_FADE_OUT_TIME_S == 1

\* (float32_t)( 2.0 * 1.0 / ( T * T )): a rate of 2.0 per second squared
LED_FADE_IN_COEF_T_TO_DUTY ==
    f32_div(f32_mul(f32(2), f32(1)),
            f32(LED_FADE_IN_TIME_S * LED_FADE_IN_TIME_S))

LED_FADE_OUT_COEF_T_TO_DUTY ==
    f32_div(f32_mul(f32(2), f32(1)),
            f32(LED_FADE_OUT_TIME_S * LED_FADE_OUT_TIME_S))

LED_TIME_LIMIT_S == 1000000

LED_TIME_LIM(time) == IF time > LED_TIME_LIMIT_S THEN LED_TIME_LIMIT_S ELSE time

LED_BLINK_CNT_CONT_VAL == 255

eLED_BLINK_1X == 0

eLED_BLINK_2X == 1

eLED_BLINK_5X == 4

eLED_BLINK_CONTINUOUS == 5

eLED_MODE_NORMAL == "eLED_MODE_NORMAL"

eLED_MODE_FADE_IN == "eLED_MODE_FADE_IN"

eLED_MODE_FADE_OUT == "eLED_MODE_FADE_OUT"

eLED_MODE_FADE_TOGGLE == "eLED_MODE_FADE_TOGGLE"

eLED_MODE_BLINK == "eLED_MODE_BLINK"

eLED_MODE_FADE_BLINK == "eLED_MODE_FADE_BLINK"

eLED_OK == "eLED_OK"

eLED_ERROR == "eLED_ERROR"

eLED_ERROR_INIT == "eLED_ERROR_INIT"

eLED_OFF == "eLED_OFF"

eLED_ON == "eLED_ON"

eLED_POL_ACTIVE_HIGH == "eLED_POL_ACTIVE_HIGH"

eLED_POL_ACTIVE_LOW == "eLED_POL_ACTIVE_LOW"

eLED_DRV_GPIO == "eLED_DRV_GPIO"

eLED_DRV_TIMER_PWM == "eLED_DRV_TIMER_PWM"

eGPIO_LOW == "eGPIO_LOW"

eGPIO_HIGH == "eGPIO_HIGH"

\* static led_t g_led[eLED_NUM_OF] = { 0 }
led_t_zero ==
    [ duty |-> f32(0), max_duty |-> f32(0), min_duty |-> f32(0), fade_time |-> 0,
      fade_in_k |-> f32(0), fade_out_k |-> f32(0), fade_out_time |-> 0,
      period |-> 0, per_time |-> 0, on_time |-> 0, active_time |-> 0,
      mode |-> eLED_MODE_NORMAL, blink_cnt |-> 0 ]

----------------------------------------------------------------------------
(* The static functions of led.c, as functions of one LED record l *)

\* variant: the active time counted only at full duty
led_manage_time_full(l) ==
    IF f32_ge(l.duty, l.max_duty)
    THEN [l EXCEPT !.active_time = LED_TIME_LIM(l.active_time + LED_HNDL_PERIOD_S)]
    ELSE [l EXCEPT !.active_time = 0]

\* duty >= max_duty / 2.0f
led_manage_time(l) ==
    IF f32_ge(l.duty, f32_div(l.max_duty, f32(2)))
    THEN [l EXCEPT !.active_time = LED_TIME_LIM(l.active_time + LED_HNDL_PERIOD_S)]
    ELSE [l EXCEPT !.active_time = 0]

\* variant: the fade time incremented before the duty is increased
led_fade_in_hndl_time_first(l, exit_mode) ==
    LET time == l.fade_time + LED_HNDL_PERIOD_S
        duty == f32_add(l.duty, f32_mul(f32_mul(l.fade_in_k, f32(time)),
                                        f32(LED_HNDL_PERIOD_S)))
    IN  IF f32_le(duty, l.max_duty)
        THEN [l EXCEPT !.duty = duty, !.fade_time = LED_TIME_LIM(time)]
        ELSE [l EXCEPT !.duty = l.max_duty,
                       !.fade_time = 0,
                       !.mode = exit_mode]

\* variant: the end of the fade-in keeps the computed duty
led_fade_in_hndl_no_limit(l, exit_mode) ==
    LET duty == f32_add(l.duty, f32_mul(f32_mul(l.fade_in_k, f32(l.fade_time)),
                                        f32(LED_HNDL_PERIOD_S)))
    IN  IF f32_le(duty, l.max_duty)
        THEN [l EXCEPT !.duty = duty,
                       !.fade_time = LED_TIME_LIM(l.fade_time + LED_HNDL_PERIOD_S)]
        ELSE [l EXCEPT !.duty = duty,
                       !.fade_time = 0,
                       !.mode = exit_mode]

led_fade_in_hndl(l, exit_mode) ==
    LET duty == f32_add(l.duty, f32_mul(f32_mul(l.fade_in_k, f32(l.fade_time)),
                                        f32(LED_HNDL_PERIOD_S)))
    IN  IF f32_le(duty, l.max_duty)
        THEN [l EXCEPT !.duty = duty,
                       !.fade_time = LED_TIME_LIM(l.fade_time + LED_HNDL_PERIOD_S)]
        ELSE [l EXCEPT !.duty = l.max_duty,
                       !.fade_time = 0,
                       !.mode = exit_mode]

\* duty > min_duty + 0.001f
led_above_min(duty, min_duty) ==
    f32_gt(duty, f32_add(min_duty, f32_0_001))

\* variant: the end of the fade-out keeps the computed duty
led_fade_out_hndl_no_limit(l, exit_mode) ==
    LET time == l.fade_out_time - l.fade_time
        duty == IF time > 0
                THEN f32_sub(l.duty,
                             f32_mul(l.fade_out_k, f32(time * LED_HNDL_PERIOD_S)))
                ELSE l.min_duty
    IN  IF led_above_min(duty, l.min_duty)
        THEN [l EXCEPT !.duty = duty,
                       !.fade_time = LED_TIME_LIM(l.fade_time + LED_HNDL_PERIOD_S)]
        ELSE [l EXCEPT !.duty = duty,
                       !.fade_time = 0,
                       !.mode = exit_mode]

led_fade_out_hndl(l, exit_mode) ==
    LET time == l.fade_out_time - l.fade_time
        duty == IF time > 0
                THEN f32_sub(l.duty,
                             f32_mul(l.fade_out_k, f32(time * LED_HNDL_PERIOD_S)))
                ELSE l.min_duty
    IN  IF led_above_min(duty, l.min_duty)
        THEN [l EXCEPT !.duty = duty,
                       !.fade_time = LED_TIME_LIM(l.fade_time + LED_HNDL_PERIOD_S)]
        ELSE [l EXCEPT !.duty = l.min_duty,
                       !.fade_time = 0,
                       !.mode = exit_mode]

\* variant: the on-time includes the tick on which per_time equals on_time
led_is_on_time_incl(l) == l.per_time <= l.on_time

led_is_on_time(l) == l.per_time < l.on_time

\* variant: the period event raised one tick early as well
led_is_period_time_early(l) == l.per_time + LED_HNDL_PERIOD_S >= l.period

led_is_period_time(l) == l.per_time >= l.period

\* variant: the counter decremented at 0 too, as an uint8_t
led_blink_cnt_hndl_wrap(l) ==
    IF led_is_period_time(l)
    THEN IF LED_BLINK_CNT_CONT_VAL # l.blink_cnt
         THEN [l EXCEPT !.mode = IF 0 = l.blink_cnt THEN eLED_MODE_NORMAL ELSE l.mode,
                        !.blink_cnt = (l.blink_cnt - 1) % 256]
         ELSE l
    ELSE l

\* variant: the blink ends one period early
led_blink_cnt_hndl_early(l) ==
    IF l.per_time >= l.period
    THEN IF LED_BLINK_CNT_CONT_VAL # l.blink_cnt
         THEN IF 1 >= l.blink_cnt
              THEN [l EXCEPT !.mode = eLED_MODE_NORMAL]
              ELSE [l EXCEPT !.blink_cnt = l.blink_cnt - 1]
         ELSE l
    ELSE l

led_blink_cnt_hndl(l) ==
    IF led_is_period_time(l)
    THEN IF LED_BLINK_CNT_CONT_VAL # l.blink_cnt
         THEN IF 0 = l.blink_cnt
              THEN [l EXCEPT !.mode = eLED_MODE_NORMAL]
              ELSE [l EXCEPT !.blink_cnt = l.blink_cnt - 1]
         ELSE l
    ELSE l

\* variant: the LED switched on at the end of the period
led_blink_hndl_on_at_end(l) ==
    led_blink_cnt_hndl(
        IF led_is_on_time(l) \/ led_is_period_time(l)
        THEN [l EXCEPT !.duty = l.max_duty]
        ELSE [l EXCEPT !.duty = l.min_duty])

led_blink_hndl(l) ==
    led_blink_cnt_hndl(
        IF led_is_on_time(l)
        THEN [l EXCEPT !.duty = l.max_duty]
        ELSE [l EXCEPT !.duty = l.min_duty])

led_fade_blink_hndl(l) ==
    led_blink_cnt_hndl(
        IF led_is_on_time(l)
        THEN led_fade_in_hndl(l, eLED_MODE_FADE_BLINK)
        ELSE led_fade_out_hndl(l, eLED_MODE_FADE_BLINK))

led_hndl_period_time(l) ==
    IF l.per_time >= l.period
    THEN [l EXCEPT !.per_time = 0]
    ELSE [l EXCEPT !.per_time = l.per_time + LED_HNDL_PERIOD_S]

\* variant: the NORMAL case of the switch switches the LED off
led_hndl_mode_normal_off(l) ==
    CASE l.mode = eLED_MODE_FADE_IN    -> led_fade_in_hndl(l, eLED_MODE_NORMAL)
      [] l.mode = eLED_MODE_FADE_OUT   -> led_fade_out_hndl(l, eLED_MODE_NORMAL)
      [] l.mode = eLED_MODE_BLINK      -> led_blink_hndl(l)
      [] l.mode = eLED_MODE_FADE_BLINK -> led_fade_blink_hndl(l)
      [] OTHER                         -> [l EXCEPT !.duty = l.min_duty]

\* variant: a finished fade out leaves the LED in FADE_TOGGLE
led_hndl_mode_fade_toggle(l) ==
    CASE l.mode = eLED_MODE_FADE_IN    -> led_fade_in_hndl(l, eLED_MODE_NORMAL)
      [] l.mode = eLED_MODE_FADE_OUT   -> led_fade_out_hndl(l, eLED_MODE_FADE_TOGGLE)
      [] l.mode = eLED_MODE_BLINK      -> led_blink_hndl(l)
      [] l.mode = eLED_MODE_FADE_BLINK -> led_fade_blink_hndl(l)
      [] OTHER                         -> l

\* the switch on g_led[led_num].mode in led_hndl
led_hndl_mode(l) ==
    CASE l.mode = eLED_MODE_FADE_IN    -> led_fade_in_hndl(l, eLED_MODE_NORMAL)
      [] l.mode = eLED_MODE_FADE_OUT   -> led_fade_out_hndl(l, eLED_MODE_NORMAL)
      [] l.mode = eLED_MODE_BLINK      -> led_blink_hndl(l)
      [] l.mode = eLED_MODE_FADE_BLINK -> led_fade_blink_hndl(l)
      [] OTHER                         -> l

\* variant: the active time managed before the step of the mode
led_hndl_led_time_first(l) == led_hndl_period_time(led_hndl_mode(led_manage_time(l)))

\* the part of the loop body of led_hndl that changes g_led[led_num]
led_hndl_led(l) == led_manage_time(led_hndl_period_time(led_hndl_mode(l)))

----------------------------------------------------------------------------
(* Driver dispatch: the call issued to the low level driver *)

\* variant: the GPIO level taken from the duty alone
led_set_gpio_no_pol(cfg, led_num, duty, max_duty) ==
    [ fn  |-> "gpio_set",
      led |-> led_num,
      val |-> IF f32_ge(duty, max_duty) THEN eGPIO_HIGH ELSE eGPIO_LOW ]

led_set_gpio(cfg, led_num, duty, max_duty) ==
    [ fn  |-> "gpio_set",
      led |-> led_num,
      val |-> IF f32_ge(duty, max_duty)
              THEN (IF eLED_POL_ACTIVE_LOW = cfg[led_num].polarity
                    THEN eGPIO_LOW ELSE eGPIO_HIGH)
              ELSE (IF eLED_POL_ACTIVE_LOW = cfg[led_num].polarity
                    THEN eGPIO_HIGH ELSE eGPIO_LOW) ]

\* variant: the inverted PWM value not limited by min_duty
led_set_timer_no_limit(cfg, led_num, duty, min_duty) ==
    [ fn  |-> "timer_pwmo_ch_set",
      led |-> led_num,
      val |-> IF eLED_POL_ACTIVE_LOW = cfg[led_num].polarity
              THEN f32_sub(Percent(100), duty)
              ELSE duty ]

led_set_timer(cfg, led_num, duty, min_duty) ==
    [ fn  |-> "timer_pwmo_ch_set",
      led |-> led_num,
      val |-> IF eLED_POL_ACTIVE_LOW = cfg[led_num].polarity
              THEN (IF f32_lt(f32_sub(Percent(100), duty), min_duty)
                    THEN min_duty ELSE f32_sub(Percent(100), duty))
              ELSE duty ]

\* the driver calls led_set_low makes, in order: none for a drv_type that is
\* neither of the two drivers; l is g_led[led_num] at the time of the call
led_set_low(cfg, led_num, l) ==
    IF eLED_DRV_TIMER_PWM = cfg[led_num].drv_type
    THEN << led_set_timer(cfg, led_num, l.duty, l.min_duty) >>
    ELSE IF eLED_DRV_GPIO = cfg[led_num].drv_type
    THEN << led_set_gpio(cfg, led_num, l.duty, l.max_duty) >>
    ELSE <<>>

\* the driver calls of led_set_low for LEDs 0 .. num-1, leds being their
\* records at the time of their call
RECURSIVE led_set_low_loop(_, _, _)
led_set_low_loop(cfg, leds, num) ==
    IF num = 0
    THEN <<>>
    ELSE led_set_low_loop(cfg, leds, num - 1)
            \o led_set_low(cfg, num - 1, leds[num - 1])

----------------------------------------------------------------------------
(* The API of led.c as functions of the module state: init is gb_is_init,  *)
(* leds is g_led.  Each yields the returned status and the new g_led.      *)

Result(status, leds) == [ status |-> status, g_led |-> leds ]

\* variant: led_set refused while a blink or a fade is in progress
led_set_normal_only(init, leds, num, state) ==
    IF init
    THEN IF num < eLED_NUM_OF /\ eLED_MODE_NORMAL = leds[num].mode
         THEN Result(eLED_OK,
                [leds EXCEPT ![num] =
                    [@ EXCEPT !.duty = IF eLED_ON = state
                                       THEN leds[num].max_duty
                                       ELSE leds[num].min_duty]])
         ELSE Result(eLED_ERROR, leds)
    ELSE Result(eLED_ERROR_INIT, leds)

\* variant: led_set sets every LED
led_set_all(init, leds, num, state) ==
    IF init
    THEN IF num < eLED_NUM_OF
         THEN Result(eLED_OK,
                [n \in LedNum |->
                    [leds[n] EXCEPT !.mode = eLED_MODE_NORMAL,
                                    !.duty = IF eLED_ON = state
                                             THEN leds[n].max_duty
                                             ELSE leds[n].min_duty]])
         ELSE Result(eLED_ERROR, leds)
    ELSE Result(eLED_ERROR_INIT, leds)

led_set(init, leds, num, state) ==
    IF init
    THEN IF num < eLED_NUM_OF
         THEN Result(eLED_OK,
                [leds EXCEPT ![num] =
                    [@ EXCEPT !.mode = eLED_MODE_NORMAL,
                              !.duty = IF eLED_ON = state
                                       THEN leds[num].max_duty
                                       ELSE leds[num].min_duty]])
         ELSE Result(eLED_ERROR, leds)
    ELSE Result(eLED_ERROR_INIT, leds)

\* variant: the toggle compares with > instead of >=
led_toggle_strict(init, leds, num) ==
    IF init
    THEN IF num < eLED_NUM_OF
         THEN Result(eLED_OK,
                [leds EXCEPT ![num] =
                    [@ EXCEPT !.mode = eLED_MODE_NORMAL,
                              !.duty = IF f32_gt(leds[num].duty, leds[num].max_duty)
                                       THEN leds[num].min_duty
                                       ELSE leds[num].max_duty]])
         ELSE Result(eLED_ERROR, leds)
    ELSE Result(eLED_ERROR_INIT, leds)

led_toggle(init, leds, num) ==
    IF init
    THEN IF num < eLED_NUM_OF
         THEN Result(eLED_OK,
                [leds EXCEPT ![num] =
                    [@ EXCEPT !.mode = eLED_MODE_NORMAL,
                              !.duty = IF f32_ge(leds[num].duty, leds[num].max_duty)
                                       THEN leds[num].min_duty
                                       ELSE leds[num].max_duty]])
         ELSE Result(eLED_ERROR, leds)
    ELSE Result(eLED_ERROR_INIT, leds)

\* variant: the continuous request loaded as a count
led_blink_cnt_load_raw(blink) == blink % 256

\* g_led[num].blink_cnt = ... in led_blink and led_blink_smooth: the
\* sentinel, or (uint8_t) blink
led_blink_cnt_load(blink) ==
    IF eLED_BLINK_CONTINUOUS = blink THEN LED_BLINK_CNT_CONT_VAL ELSE blink % 256

\* variant: a blink accepted whatever on_time and period
led_blink_accepts_any_time(leds, num, on_time, period) ==
    /\ num < eLED_NUM_OF
    /\ eLED_MODE_NORMAL = leds[num].mode

\* variant: a blink accepted in every mode
led_blink_accepts_any_mode(leds, num, on_time, period) ==
    /\ num < eLED_NUM_OF
    /\ on_time < period

\* the condition under which led_blink and led_blink_smooth accept
led_blink_accepts(leds, num, on_time, period) ==
    /\ num < eLED_NUM_OF
    /\ on_time < period
    /\ eLED_MODE_NORMAL = leds[num].mode

\* variant: the arguments checked before the init flag
led_blink_args_first(init, leds, num, on_time, period, blink) ==
    IF num < eLED_NUM_OF /\ on_time < period
    THEN IF init
         THEN IF eLED_MODE_NORMAL = leds[num].mode
              THEN Result(eLED_OK,
                     [leds EXCEPT ![num] =
                         [@ EXCEPT !.mode = eLED_MODE_BLINK,
                                   !.on_time = on_time,
                                   !.period = period,
                                   !.per_time = 0,
                                   !.blink_cnt = led_blink_cnt_load(blink)]])
              ELSE Result(eLED_ERROR, leds)
         ELSE Result(eLED_ERROR_INIT, leds)
    ELSE Result(eLED_ERROR, leds)

led_blink(init, leds, num, on_time, period, blink) ==
    IF init
    THEN IF led_blink_accepts(leds, num, on_time, period)
         THEN Result(eLED_OK,
                [leds EXCEPT ![num] =
                    [@ EXCEPT !.mode = eLED_MODE_BLINK,
                              !.on_time = on_time,
                              !.period = period,
                              !.per_time = 0,
                              !.blink_cnt = led_blink_cnt_load(blink)]])
         ELSE Result(eLED_ERROR, leds)
    ELSE Result(eLED_ERROR_INIT, leds)

led_set_smooth(init, leds, num, state) ==
    IF init
    THEN IF num < eLED_NUM_OF
         THEN Result(eLED_OK,
                [leds EXCEPT ![num].mode = IF eLED_ON = state
                                           THEN eLED_MODE_FADE_IN
                                           ELSE eLED_MODE_FADE_OUT])
         ELSE Result(eLED_ERROR, leds)
    ELSE Result(eLED_ERROR_INIT, leds)

led_blink_smooth(init, leds, num, on_time, period, blink) ==
    IF init
    THEN IF led_blink_accepts(leds, num, on_time, period)
         THEN Result(eLED_OK,
                [leds EXCEPT ![num] =
                    [@ EXCEPT !.mode = eLED_MODE_FADE_BLINK,
                              !.on_time = on_time,
                              !.period = period,
                              !.per_time = 0,
                              !.blink_cnt = led_blink_cnt_load(blink)]])
         ELSE Result(eLED_ERROR, leds)
    ELSE Result(eLED_ERROR_INIT, leds)

\* (float32_t)( 2.0f * ( max_duty - min_duty ) / ( time * time )): for a
\* time of 0 the quotient is +inf, -inf or NaN by the sign of the dividend
led_fade_coef(max_duty, min_duty, time) ==
    f32_div(f32_mul(f32(2), f32_sub(max_duty, min_duty)),
            f32_mul(f32(time), f32(time)))

\* variant: led_set_fade_cfg without the test of the mode
led_set_fade_cfg_any_mode(init, leds, num, p_fade_cfg) ==
    IF init
    THEN IF num < eLED_NUM_OF /\ p_fade_cfg # <<>>
         THEN LET c == p_fade_cfg[1]
              IN  Result(eLED_OK,
                    [leds EXCEPT ![num] =
                        [@ EXCEPT !.max_duty = c.max_duty,
                                  !.min_duty = c.min_duty,
                                  !.fade_in_k =
                                      led_fade_coef(c.max_duty, c.min_duty,
                                                    c.fade_in_time),
                                  !.fade_out_k =
                                      led_fade_coef(c.max_duty, c.min_duty,
                                                    c.fade_out_time),
                                  !.fade_out_time = c.fade_out_time]])
         ELSE Result(eLED_ERROR, leds)
    ELSE Result(eLED_ERROR_INIT, leds)

\* p_fade_cfg is <<>> for a NULL pointer and <<cfg>> for a pointer to cfg
led_set_fade_cfg(init, leds, num, p_fade_cfg) ==
    IF init
    THEN IF /\ num < eLED_NUM_OF
            /\ p_fade_cfg # <<>>
            /\ eLED_MODE_NORMAL = leds[num].mode
         THEN LET c == p_fade_cfg[1]
              IN  Result(eLED_OK,
                    [leds EXCEPT ![num] =
                        [@ EXCEPT !.max_duty = c.max_duty,
                                  !.min_duty = c.min_duty,
                                  !.fade_in_k =
                                      led_fade_coef(c.max_duty, c.min_duty,
                                                    c.fade_in_time),
                                  !.fade_out_k =
                                      led_fade_coef(c.max_duty, c.min_duty,
                                                    c.fade_out_time),
                                  !.fade_out_time = c.fade_out_time]])
         ELSE Result(eLED_ERROR, leds)
    ELSE Result(eLED_ERROR_INIT, leds)

\* the record led_init writes before led_set( num, initial_state )
led_t_init ==
    [ duty |-> f32(0), max_duty |-> Percent(100), min_duty |-> Percent(0),
      fade_time |-> 0,
      fade_in_k |-> LED_FADE_IN_COEF_T_TO_DUTY,
      fade_out_k |-> LED_FADE_OUT_COEF_T_TO_DUTY,
      fade_out_time |-> 1,
      period |-> 0, per_time |-> 0, on_time |-> 0, active_time |-> 0,
      mode |-> eLED_MODE_NORMAL, blink_cnt |-> 0 ]

\* variant: the loop of led_init without led_set( num, initial_state )
RECURSIVE led_init_loop_no_set(_, _, _)
led_init_loop_no_set(cfg, leds, num) ==
    IF num = 0
    THEN leds
    ELSE [led_init_loop_no_set(cfg, leds, num - 1) EXCEPT ![num - 1] = led_t_init]

\* the loop of led_init: g_led after the records of LEDs 0 .. num-1 are set up
RECURSIVE led_init_loop(_, _, _)
led_init_loop(cfg, leds, num) ==
    IF num = 0
    THEN leds
    ELSE LET before == led_init_loop(cfg, leds, num - 1)
             reset  == [before EXCEPT ![num - 1] = led_t_init]
         IN  led_set(TRUE, reset, num - 1, cfg[num - 1].initial_state).g_led

\* variant: the loop of led_deinit switching every LED off
RECURSIVE led_deinit_loop_off(_, _, _)
led_deinit_loop_off(cfg, leds, num) ==
    IF num = 0
    THEN leds
    ELSE led_set(TRUE, led_deinit_loop_off(cfg, leds, num - 1), num - 1,
                 eLED_OFF).g_led

\* the loop of led_deinit
RECURSIVE led_deinit_loop(_, _, _)
led_deinit_loop(cfg, leds, num) ==
    IF num = 0
    THEN leds
    ELSE led_set(TRUE, led_deinit_loop(cfg, leds, num - 1), num - 1,
                 cfg[num - 1].initial_state).g_led

\* variant: the results of timer_init() and gpio_init() not looked at
led_init_drv_unchecked(timer_ok, gpio_ok) == eLED_OK

\* variant: the result of gpio_init() not taken into the status
led_init_drv_timer_only(timer_ok, gpio_ok) ==
    IF timer_ok THEN eLED_OK ELSE eLED_ERROR_INIT

\* led_init_drv: timer_ok and gpio_ok say whether timer_init() and gpio_init()
\* report success
led_init_drv(timer_ok, gpio_ok) ==
    IF timer_ok /\ gpio_ok THEN eLED_OK ELSE eLED_ERROR_INIT

\* led_is_init: p_is_init is FALSE for a NULL pointer; out is what is written
led_is_init(init, p_is_init) ==
    IF p_is_init
    THEN [ status |-> eLED_OK, out |-> <<init>> ]
    ELSE [ status |-> eLED_ERROR, out |-> <<>> ]

led_get_active_time(init, leds, num, p_active_time) ==
    IF init
    THEN IF num < eLED_NUM_OF /\ p_active_time
         THEN [ status |-> eLED_OK, out |-> <<leds[num].active_time>> ]
         ELSE [ status |-> eLED_ERROR, out |-> <<>> ]
    ELSE [ status |-> eLED_ERROR_INIT, out |-> <<>> ]

led_is_idle(init, leds, num, p_is_idle) ==
    IF init
    THEN IF num < eLED_NUM_OF /\ p_is_idle
         THEN [ status |-> eLED_OK,
                out |-> <<eLED_MODE_NORMAL = leds[num].mode>> ]
         ELSE [ status |-> eLED_ERROR, out |-> <<>> ]
    ELSE [ status |-> eLED_ERROR_INIT, out |-> <<>> ]

\* variant: led_is_on reporting the duty alone
led_is_on_duty_only(init, leds, num, p_is_on) ==
    LET idle == led_is_idle(init, leds, num, TRUE)
    IN  IF eLED_OK = idle.status
        THEN [ status |-> eLED_OK,
               out    |-> IF p_is_on
                          THEN << f32_ne(f32(0), leds[num].duty) >> ELSE <<>>,
               fault  |-> ~p_is_on ]
        ELSE [ status |-> idle.status, out |-> <<>>, fault |-> FALSE ]

\* led_is_on calls led_is_idle with its own local, and on eLED_OK writes
\* through p_is_on without testing it: "fault" says the write went through NULL
led_is_on(init, leds, num, p_is_on) ==
    LET idle == led_is_idle(init, leds, num, TRUE)
    IN  IF eLED_OK = idle.status
        THEN [ status |-> eLED_OK,
               out    |-> IF p_is_on
                          THEN << (~idle.out[1])
                                  \/ f32_ne(f32(0), leds[num].duty) >>
                          ELSE <<>>,
               fault  |-> ~p_is_on ]
        ELSE [ status |-> idle.status, out |-> <<>>, fault |-> FALSE ]

----------------------------------------------------------------------------
(* Bounds of the model and the inputs the operations are called with *)

\* led_hndl is not called again once a time counter of an LED reached MaxTime
MaxTime == 12

MaxTimeShort == 5

MaxTimeLife == 2

\* the tick and pulse counters of the observer stop counting at MaxAge
MaxAge == 21

Min(a, b) == IF a <= b THEN a ELSE b

\* configuration tables led_cfg_get_table may return
CfgRow(drv_type, initial_state, polarity) ==
    [ drv_type |-> drv_type, initial_state |-> initial_state,
      polarity |-> polarity ]

CfgTables ==
    { [n \in LedNum |->
          IF n = 0
          THEN CfgRow(eLED_DRV_TIMER_PWM, eLED_OFF, eLED_POL_ACTIVE_HIGH)
          ELSE CfgRow(eLED_DRV_GPIO, eLED_OFF, eLED_POL_ACTIVE_HIGH)],
      [n \in LedNum |->
          IF n = 0
          THEN CfgRow(eLED_DRV_TIMER_PWM, eLED_ON, eLED_POL_ACTIVE_LOW)
          ELSE CfgRow(eLED_DRV_GPIO, eLED_OFF, eLED_POL_ACTIVE_LOW)] }

\* LED numbers passed to the API: the LEDs and one number out of range
LedArgs == 0 .. eLED_NUM_OF

LedStates == { eLED_OFF, eLED_ON }

FadeCfg(fade_in_time, fade_out_time, max_duty, min_duty) ==
    [ fade_in_time |-> fade_in_time, fade_out_time |-> fade_out_time,
      max_duty |-> Percent(max_duty), min_duty |-> Percent(min_duty) ]

----------------------------------------------------------------------------
(* State *)

VARIABLES
    g_led,          \* the LED records, LedNum -> led_t
    gb_is_init,     \* initialisation guard
    gp_cfg_table,   \* <<>> for NULL, <<table>> once led_init fetched it
    led_cfg_table,  \* what led_cfg_get_table returns: <<>> (NULL) or <<table>>
    drv,            \* which low level drivers have been initialised
    ll_out,         \* the last call issued to the driver of each LED (<<>>: none)
    status,         \* the status returned by the last API call
    out,            \* what the last API call wrote through its output pointer
    io,             \* the driver calls the last API call issued, in order
    call,           \* the last API call and its arguments
    obs,            \* observer: per LED, the last accepted command, the
                    \* handler ticks it has been running for and the ON
                    \* windows of its blink so far
    fault           \* TRUE once a call wrote through a NULL pointer

vars == << g_led, gb_is_init, gp_cfg_table, led_cfg_table, drv, ll_out,
           status, out, io, call, obs, fault >>

\* stands for an argument the call does not have
NA == 0 - 1

Call(name, num, state, on_time, period, blink, cfg, ptr) ==
    [ name |-> name, num |-> num, state |-> state, on_time |-> on_time,
      period |-> period, blink |-> blink, cfg |-> cfg, ptr |-> ptr ]

NoCall == Call("none", NA, "NA", NA, NA, NA, <<>>, TRUE)

\* the observer of one LED after command c was accepted on record l:
\*   req, blink          the command and its blink argument
\*   start_duty, start_mode   duty and mode when it was accepted
\*   age      handler ticks processed since, while the mode was not NORMAL
\*   pulses   ON windows begun since (ticks of a blink mode on which the
\*            blink timer reported on-time, the tick before not)
\*   periods  period-elapsed events seen since by a blink mode
Obs(c, l) ==
    [ req |-> c.name, blink |-> c.blink,
      start_duty |-> l.duty, start_mode |-> l.mode,
      age |-> 0, pulses |-> 0, periods |-> 0, lit |-> FALSE ]

Init ==
    /\ g_led = [n \in LedNum |-> led_t_zero]
    /\ gb_is_init = FALSE
    /\ gp_cfg_table = <<>>
    /\ led_cfg_table \in { <<t>> : t \in CfgTables } \cup { <<>> }
    /\ drv = [ timer |-> FALSE, gpio |-> FALSE ]
    /\ ll_out = [n \in LedNum |-> <<>>]
    /\ status = eLED_OK
    /\ out = <<>>
    /\ io = <<>>
    /\ call = NoCall
    /\ obs = [n \in LedNum |-> Obs(NoCall, led_t_zero)]
    /\ fault = FALSE

----------------------------------------------------------------------------
(* led_init, led_deinit and led_hndl as functions of the module state.     *)
(* gp is gp_cfg_table, tbl is what led_cfg_get_table returns.              *)

DrvCall(fn, ok) ==
    [ fn |-> fn, led |-> NA, val |-> IF ok THEN "ok" ELSE "error" ]

\* variant: led_init without the guard against multiple inits
led_init_again(init, leds, gp, tbl, timer_ok, gpio_ok) ==
    LET set_up == led_init_loop(tbl[1], leds, eLED_NUM_OF)
        drv_io == << DrvCall("timer_init", timer_ok),
                     DrvCall("gpio_init", gpio_ok) >>
    IN  IF tbl = <<>>
        THEN [ status |-> eLED_ERROR_INIT, gb_is_init |-> init,
               g_led |-> leds, gp_cfg_table |-> tbl, io |-> <<>> ]
        ELSE IF eLED_OK = led_init_drv(timer_ok, gpio_ok)
        THEN [ status |-> eLED_OK, gb_is_init |-> TRUE,
               g_led |-> set_up, gp_cfg_table |-> tbl,
               io |-> drv_io \o led_set_low_loop(tbl[1], set_up, eLED_NUM_OF) ]
        ELSE [ status |-> eLED_ERROR_INIT, gb_is_init |-> init,
               g_led |-> leds, gp_cfg_table |-> tbl, io |-> drv_io ]

led_init(init, leds, gp, tbl, timer_ok, gpio_ok) ==
    IF ~init
    THEN IF tbl # <<>>
         THEN IF eLED_OK = led_init_drv(timer_ok, gpio_ok)
              THEN LET set_up == led_init_loop(tbl[1], leds, eLED_NUM_OF)
                   IN  [ status |-> eLED_OK, gb_is_init |-> TRUE,
                         g_led |-> set_up, gp_cfg_table |-> tbl,
                         io |-> << DrvCall("timer_init", timer_ok),
                                   DrvCall("gpio_init", gpio_ok) >>
                                \o led_set_low_loop(tbl[1], set_up, eLED_NUM_OF) ]
              ELSE [ status |-> eLED_ERROR_INIT, gb_is_init |-> FALSE,
                     g_led |-> leds, gp_cfg_table |-> tbl,
                     io |-> << DrvCall("timer_init", timer_ok),
                               DrvCall("gpio_init", gpio_ok) >> ]
         ELSE [ status |-> eLED_ERROR_INIT, gb_is_init |-> FALSE,
                g_led |-> leds, gp_cfg_table |-> tbl, io |-> <<>> ]
    ELSE [ status |-> eLED_OK, gb_is_init |-> init,
           g_led |-> leds, gp_cfg_table |-> gp, io |-> <<>> ]

led_deinit(init, leds, gp) ==
    IF init
    THEN [ status |-> eLED_OK, gb_is_init |-> FALSE,
           g_led |-> led_deinit_loop(gp[1], leds, eLED_NUM_OF), io |-> <<>> ]
    ELSE [ status |-> eLED_OK, gb_is_init |-> init, g_led |-> leds, io |-> <<>> ]

\* variant: every LED stepped in the mode of LED 0
led_hndl_mode_of_first(init, leds, gp) ==
    LET first == [n \in LedNum |-> [leds[n] EXCEPT !.mode = leds[0].mode]]
    IN  IF init
        THEN [ status |-> eLED_OK,
               g_led |-> [n \in LedNum |-> led_hndl_led(first[n])],
               io |-> led_set_low_loop(gp[1],
                                       [n \in LedNum |-> led_hndl_mode(first[n])],
                                       eLED_NUM_OF) ]
        ELSE [ status |-> eLED_ERROR_INIT, g_led |-> leds, io |-> <<>> ]

led_hndl(init, leds, gp) ==
    IF init
    THEN [ status |-> eLED_OK,
           g_led |-> [n \in LedNum |-> led_hndl_led(leds[n])],
           io |-> led_set_low_loop(gp[1],
                                   [n \in LedNum |-> led_hndl_mode(leds[n])],
                                   eLED_NUM_OF) ]
    ELSE [ status |-> eLED_ERROR_INIT, g_led |-> leds, io |-> <<>> ]

----------------------------------------------------------------------------
(* Actions: one per API function *)

\* the last driver call per LED after the calls ios
RECURSIVE LastOut(_, _)
LastOut(prev, ios) ==
    IF ios = <<>>
    THEN prev
    ELSE LET c == ios[Len(ios)]
             before == LastOut(prev, SubSeq(ios, 1, Len(ios) - 1))
         IN  IF c.led = NA THEN before ELSE [before EXCEPT ![c.led] = <<c>>]

\* the observer after one handler tick on record l
ObsTick(o, l) ==
    LET blinking == l.mode \in { eLED_MODE_BLINK, eLED_MODE_FADE_BLINK }
        on == blinking /\ led_is_on_time(l)
    IN  [ o EXCEPT !.age = IF l.mode # eLED_MODE_NORMAL
                           THEN Min(o.age + 1, MaxAge) ELSE o.age,
                   !.pulses = IF on /\ ~o.lit
                              THEN Min(o.pulses + 1, MaxAge) ELSE o.pulses,
                   !.periods = IF blinking /\ led_is_period_time(l)
                               THEN Min(o.periods + 1, MaxAge) ELSE o.periods,
                   !.lit = on ]

\* a command or query addressed to LED c.num
Command(c, res) ==
    /\ ~fault
    /\ call' = c
    /\ status' = res.status
    /\ g_led' = res.g_led
    /\ out' = <<>>
    /\ io' = <<>>
    /\ obs' = IF eLED_OK = res.status
              THEN [obs EXCEPT ![c.num] = Obs(c, g_led[c.num])]
              ELSE obs
    /\ UNCHANGED << gb_is_init, gp_cfg_table, led_cfg_table, drv, ll_out, fault >>

Query(c, res) ==
    /\ ~fault
    /\ call' = c
    /\ status' = res.status
    /\ out' = res.out
    /\ io' = <<>>
    /\ UNCHANGED << g_led, gb_is_init, gp_cfg_table, led_cfg_table, drv,
                    ll_out, obs >>

LedInit(timer_ok, gpio_ok) ==
    LET res == led_init(gb_is_init, g_led, gp_cfg_table, led_cfg_table,
                        timer_ok, gpio_ok)
        c == Call("led_init", NA, "NA", NA, NA, NA, <<>>, TRUE)
    IN  /\ ~fault
        /\ call' = c
        /\ status' = res.status
        /\ gb_is_init' = res.gb_is_init
        /\ gp_cfg_table' = res.gp_cfg_table
        /\ g_led' = res.g_led
        /\ io' = res.io
        /\ ll_out' = LastOut(ll_out, res.io)
        /\ drv' = IF res.io = <<>>
                  THEN drv
                  ELSE [ timer |-> timer_ok, gpio |-> gpio_ok ]
        /\ out' = <<>>
        /\ obs' = IF res.gb_is_init /\ ~gb_is_init
                  THEN [n \in LedNum |-> Obs(c, res.g_led[n])]
                  ELSE obs
        /\ UNCHANGED << led_cfg_table, fault >>

LedDeinit ==
    LET res == led_deinit(gb_is_init, g_led, gp_cfg_table)
        c == Call("led_deinit", NA, "NA", NA, NA, NA, <<>>, TRUE)
    IN  /\ ~fault
        /\ call' = c
        /\ status' = res.status
        /\ gb_is_init' = res.gb_is_init
        /\ g_led' = res.g_led
        /\ io' = res.io
        /\ ll_out' = LastOut(ll_out, res.io)
        /\ out' = <<>>
        /\ obs' = IF gb_is_init
                  THEN [n \in LedNum |-> Obs(c, res.g_led[n])]
                  ELSE obs
        /\ UNCHANGED << gp_cfg_table, led_cfg_table, drv, fault >>

LedIsInit(ptr) ==
    /\ Query(Call("led_is_init", NA, "NA", NA, NA, NA, <<>>, ptr),
             led_is_init(gb_is_init, ptr))
    /\ UNCHANGED fault

\* led_hndl, while no time counter of a record has reached limit
LedHndlWithin(limit) ==
    LET res == led_hndl(gb_is_init, g_led, gp_cfg_table)
    IN  /\ ~fault
        /\ \A n \in LedNum : /\ g_led[n].fade_time < limit
                             /\ g_led[n].active_time < limit
        /\ call' = Call("led_hndl", NA, "NA", NA, NA, NA, <<>>, TRUE)
        /\ status' = res.status
        /\ g_led' = res.g_led
        /\ io' = res.io
        /\ ll_out' = LastOut(ll_out, res.io)
        /\ out' = <<>>
        /\ obs' = IF gb_is_init
                  THEN [n \in LedNum |-> ObsTick(obs[n], g_led[n])]
                  ELSE obs
        /\ UNCHANGED << gb_is_init, gp_cfg_table, led_cfg_table, drv, fault >>

LedHndl == LedHndlWithin(MaxTime)

LedHndlShort == LedHndlWithin(MaxTimeShort)

LedHndlLife == LedHndlWithin(MaxTimeLife)

LedSet(num, state) ==
    Command(Call("led_set", num, state, NA, NA, NA, <<>>, TRUE),
            led_set(gb_is_init, g_led, num, state))

LedToggle(num) ==
    Command(Call("led_toggle", num, "NA", NA, NA, NA, <<>>, TRUE),
            led_toggle(gb_is_init, g_led, num))

LedBlink(num, on_time, period, blink) ==
    Command(Call("led_blink", num, "NA", on_time, period, blink, <<>>, TRUE),
            led_blink(gb_is_init, g_led, num, on_time, period, blink))

LedSetSmooth(num, state) ==
    Command(Call("led_set_smooth", num, state, NA, NA, NA, <<>>, TRUE),
            led_set_smooth(gb_is_init, g_led, num, state))

LedBlinkSmooth(num, on_time, period, blink) ==
    Command(Call("led_blink_smooth", num, "NA", on_time, period, blink, <<>>, TRUE),
            led_blink_smooth(gb_is_init, g_led, num, on_time, period, blink))

LedSetFadeCfg(num, p_fade_cfg) ==
    Command(Call("led_set_fade_cfg", num, "NA", NA, NA, NA, p_fade_cfg,
                 p_fade_cfg # <<>>),
            led_set_fade_cfg(gb_is_init, g_led, num, p_fade_cfg))

LedGetActiveTime(num, ptr) ==
    /\ Query(Call("led_get_active_time", num, "NA", NA, NA, NA, <<>>, ptr),
             led_get_active_time(gb_is_init, g_led, num, ptr))
    /\ UNCHANGED fault

LedIsIdle(num, ptr) ==
    /\ Query(Call("led_is_idle", num, "NA", NA, NA, NA, <<>>, ptr),
             led_is_idle(gb_is_init, g_led, num, ptr))
    /\ UNCHANGED fault

LedIsOn(num, ptr) ==
    LET res == led_is_on(gb_is_init, g_led, num, ptr)
    IN  /\ Query(Call("led_is_on", num, "NA", NA, NA, NA, <<>>, ptr), res)
        /\ fault' \in (IF res.fault THEN { TRUE, FALSE } ELSE { FALSE })

----------------------------------------------------------------------------
(* Specifications *)

\* <<on_time, period>> arguments of led_blink and led_blink_smooth
BlinkTimes == { <<1, 2>>, <<1, 3>>, <<2, 3>>, <<2, 2>> }

Blinks == eLED_BLINK_1X .. eLED_BLINK_CONTINUOUS

\* SpecBlink: LED 0 blinks, with every blink count, and blinks smoothly
NextBlink ==
    \/ \E timer_ok \in BOOLEAN, gpio_ok \in BOOLEAN : LedInit(timer_ok, gpio_ok)
    \/ LedHndl
    \/ \E t \in BlinkTimes, blink \in Blinks : LedBlink(0, t[1], t[2], blink)
    \/ \E t \in { <<1, 2>>, <<2, 3>> },
          blink \in { eLED_BLINK_1X, eLED_BLINK_CONTINUOUS } :
          LedBlinkSmooth(0, t[1], t[2], blink)

SpecBlink == Init /\ [][NextBlink]_vars

\* Spec: the commands of LED 0 issued in every mode
Next ==
    \/ \E timer_ok \in BOOLEAN, gpio_ok \in BOOLEAN : LedInit(timer_ok, gpio_ok)
    \/ LedHndlShort
    \/ \E state \in LedStates : LedSet(0, state)
    \/ LedToggle(0)
    \/ \E blink \in { eLED_BLINK_2X, eLED_BLINK_CONTINUOUS } :
          LedBlink(0, 1, 2, blink)
    \/ \E state \in LedStates : LedSetSmooth(0, state)
    \/ LedBlinkSmooth(0, 1, 2, eLED_BLINK_CONTINUOUS)
    \/ LedSetFadeCfg(0, << FadeCfg(2, 2, 100, 50) >>)

Spec == Init /\ [][Next]_vars

\* SpecFade: fades of LED 0 under the default and under changed fade
\* configurations, also interrupted by led_set
FadeCfgs == { FadeCfg(4, 4, 50, 0), FadeCfg(2, 2, 0, 50) }

NextFade ==
    \/ \E timer_ok \in BOOLEAN, gpio_ok \in BOOLEAN : LedInit(timer_ok, gpio_ok)
    \/ LedHndlShort
    \/ \E state \in LedStates : LedSet(0, state)
    \/ \E state \in LedStates : LedSetSmooth(0, state)
    \/ \E c \in FadeCfgs : LedSetFadeCfg(0, << c >>)

SpecFade == Init /\ [][NextFade]_vars

\* SpecUninit: every API function, before led_init, between led_init and
\* led_deinit, and after led_deinit
\* LED 0 and the first index out of range
LifeArgs == { 0, eLED_NUM_OF }

NextUninit ==
    \/ \E timer_ok \in BOOLEAN, gpio_ok \in BOOLEAN : LedInit(timer_ok, gpio_ok)
    \/ LedDeinit
    \/ \E ptr \in BOOLEAN : LedIsInit(ptr)
    \/ LedHndlLife
    \/ \E num \in LifeArgs : LedSet(num, eLED_ON)
    \/ \E num \in LifeArgs : LedToggle(num)
    \/ \E num \in LifeArgs : LedBlink(num, 1, 2, eLED_BLINK_CONTINUOUS)
    \/ \E num \in LifeArgs : LedSetSmooth(num, eLED_OFF)
    \/ \E num \in LifeArgs : LedBlinkSmooth(num, 1, 2, eLED_BLINK_1X)
    \/ \E num \in LifeArgs : LedSetFadeCfg(num, << FadeCfg(1, 1, 50, 0) >>)
    \/ \E num \in LifeArgs : LedGetActiveTime(num, TRUE)
    \/ \E num \in LifeArgs : LedIsIdle(num, TRUE)
    \/ \E num \in LifeArgs : LedIsOn(num, TRUE)

SpecUninit == Init /\ [][NextUninit]_vars

\* SpecLive: led_hndl keeps being called and commands are issued to LED 0
\* only while it is idle, so that a fade, once started, sees handler ticks
\* only.  The time counters are followed at both ends of their range: from
\* 0 up to MaxTime, and from InitLate up to the ceiling LED_TIME_LIMIT_S.

\* the state LED_TIME_LIMIT_S - 2 handler ticks after led_init,
\* led_set_fade_cfg( 0, max_duty = min_duty = 50 ), led_set( 0, eLED_OFF ) and
\* led_set_smooth( 0, eLED_ON ): every one of these ticks finds
\* duty + fade_in_k * fade_time = duty <= max_duty and duty >= max_duty / 2,
\* and adds one handler period to fade_time and to active_time
InitLate ==
    \E t \in CfgTables :
        LET zero   == [n \in LedNum |-> led_t_zero]
            init   == led_init(FALSE, zero, <<>>, <<t>>, TRUE, TRUE)
            cfg    == led_set_fade_cfg(TRUE, init.g_led, 0,
                                       << FadeCfg(2, 2, 50, 50) >>)
            off    == led_set(TRUE, cfg.g_led, 0, eLED_OFF)
            smooth == led_set_smooth(TRUE, off.g_led, 0, eLED_ON)
            tick   == led_hndl(TRUE, smooth.g_led, <<t>>)
            late   == [smooth.g_led EXCEPT
                         ![0].fade_time = LED_TIME_LIMIT_S - 2,
                         ![0].active_time = LED_TIME_LIMIT_S - 2]
        IN  /\ g_led = late
            /\ gb_is_init = TRUE
            /\ gp_cfg_table = <<t>>
            /\ led_cfg_table = <<t>>
            /\ drv = [ timer |-> TRUE, gpio |-> TRUE ]
            /\ ll_out = LastOut([n \in LedNum |-> <<>>], tick.io)
            /\ status = eLED_OK
            /\ out = <<>>
            /\ io = tick.io
            /\ call = Call("led_hndl", NA, "NA", NA, NA, NA, <<>>, TRUE)
            /\ obs = [n \in LedNum |->
                        IF n = 0
                        THEN [Obs(Call("led_set_smooth", 0, eLED_ON, NA, NA, NA,
                                       <<>>, TRUE), off.g_led[0])
                                 EXCEPT !.age = MaxAge]
                        ELSE Obs(Call("led_init", NA, "NA", NA, NA, NA, <<>>, TRUE),
                                 init.g_led[n])]
            /\ fault = FALSE

\* led_hndl, while the counter each LED is using (fade_time in a fade,
\* active_time otherwise) is within MaxTime of 0 or of the ceiling
LedHndlEnds ==
    LET res == led_hndl(gb_is_init, g_led, gp_cfg_table)
    IN  /\ ~fault
        /\ \A n \in LedNum :
              LET time == IF g_led[n].mode = eLED_MODE_NORMAL
                          THEN g_led[n].active_time
                          ELSE g_led[n].fade_time
              IN  time < MaxTime \/ time >= LED_TIME_LIMIT_S - MaxTime
        /\ call' = Call("led_hndl", NA, "NA", NA, NA, NA, <<>>, TRUE)
        /\ status' = res.status
        /\ g_led' = res.g_led
        /\ io' = res.io
        /\ ll_out' = LastOut(ll_out, res.io)
        /\ out' = <<>>
        /\ obs' = IF gb_is_init
                  THEN [n \in LedNum |-> ObsTick(obs[n], g_led[n])]
                  ELSE obs
        /\ UNCHANGED << gb_is_init, gp_cfg_table, led_cfg_table, drv, fault >>

\* LED n is idle and its active_time is within MaxTime of 0 or of the ceiling
LedIdle(n) ==
    /\ g_led[n].mode = eLED_MODE_NORMAL
    /\ \/ g_led[n].active_time < MaxTime
       \/ g_led[n].active_time >= LED_TIME_LIMIT_S - MaxTime

NextLive ==
    \/ \E timer_ok \in BOOLEAN, gpio_ok \in BOOLEAN : LedInit(timer_ok, gpio_ok)
    \/ LedHndlEnds
    \/ \E state \in LedStates : LedIdle(0) /\ LedSet(0, state)
    \/ \E state \in LedStates : LedIdle(0) /\ LedSetSmooth(0, state)
    \/ LedIdle(0) /\ LedSetFadeCfg(0, << FadeCfg(4, 4, 50, 0) >>)

\* led_hndl is called periodically for as long as the program runs
SpecLive ==
    (Init \/ InitLate) /\ [][NextLive]_vars /\ WF_vars(LedHndlEnds)

\* SpecDrv: both LEDs, the PWM one and the GPIO one, under both polarities,
\* set, faded and reconfigured, and what led_init and led_hndl send to the
\* low level drivers
NextDrv ==
    \/ \E timer_ok \in BOOLEAN, gpio_ok \in BOOLEAN : LedInit(timer_ok, gpio_ok)
    \/ LedHndlLife
    \/ \E num \in LedNum, state \in LedStates : LedSet(num, state)
    \/ \E state \in LedStates : LedSetSmooth(0, state)
    \/ \E num \in LedNum : LedSetFadeCfg(num, << FadeCfg(2, 2, 100, 50) >>)

SpecDrv == Init /\ [][NextDrv]_vars

\* SpecArgs: every command and query with valid and invalid arguments: LED 0
\* and the first index out of range, on_time below, at and above period,
\* output and configuration pointers valid and NULL
ArgNums == { 0, eLED_NUM_OF }

ArgTimes == { <<1, 2>>, <<2, 2>>, <<3, 2>> }

NextArgs ==
    \/ \E timer_ok \in BOOLEAN, gpio_ok \in BOOLEAN : LedInit(timer_ok, gpio_ok)
    \/ LedHndlLife
    \/ \E ptr \in BOOLEAN : LedIsInit(ptr)
    \/ \E num \in ArgNums : LedSet(num, eLED_ON)
    \/ \E num \in ArgNums : LedToggle(num)
    \/ \E num \in ArgNums, t \in ArgTimes :
          LedBlink(num, t[1], t[2], eLED_BLINK_CONTINUOUS)
    \/ \E num \in ArgNums : LedSetSmooth(num, eLED_OFF)
    \/ \E num \in ArgNums, t \in ArgTimes :
          LedBlinkSmooth(num, t[1], t[2], eLED_BLINK_1X)
    \/ \E num \in ArgNums, p \in { <<>>, << FadeCfg(1, 1, 50, 0) >> } :
          LedSetFadeCfg(num, p)
    \/ \E num \in ArgNums, ptr \in BOOLEAN : LedGetActiveTime(num, ptr)
    \/ \E num \in ArgNums, ptr \in BOOLEAN : LedIsIdle(num, ptr)
    \/ \E num \in ArgNums, ptr \in BOOLEAN : LedIsOn(num, ptr)

SpecArgs == Init /\ [][NextArgs]_vars

\* SpecPair: both LEDs are commanded: LED 0 is set and faded in under a
\* changed fade configuration, LED 1 is set and blinked
NextPair ==
    \/ \E timer_ok \in BOOLEAN, gpio_ok \in BOOLEAN : LedInit(timer_ok, gpio_ok)
    \/ LedHndlLife
    \/ \E num \in LedNum : LedSet(num, eLED_ON)
    \/ LedBlink(1, 1, 2, eLED_BLINK_1X)
    \/ LedSetSmooth(0, eLED_ON)
    \/ LedSetFadeCfg(0, << FadeCfg(2, 2, 100, 50) >>)

SpecPair == Init /\ [][NextPair]_vars

\* SpecSmooth: LED 0 set, blinked and faded under fade configurations with
\* 0 <= min_duty < max_duty <= 100 and positive fade times
SmoothCfgs == { FadeCfg(1, 4, 100, 0), FadeCfg(2, 2, 50, 0) }

NextSmooth ==
    \/ \E timer_ok \in BOOLEAN, gpio_ok \in BOOLEAN : LedInit(timer_ok, gpio_ok)
    \/ LedHndlShort
    \/ LedSet(0, eLED_ON)
    \/ \E state \in LedStates : LedSetSmooth(0, state)
    \/ LedBlinkSmooth(0, 2, 3, eLED_BLINK_1X)
    \/ \E c \in SmoothCfgs : LedSetFadeCfg(0, << c >>)

SpecSmooth == Init /\ [][NextSmooth]_vars

\* SpecRamp: whole ramps of LED 0 under rates set by led_set_fade_cfg.
\* Commands are issued to the LED in NORMAL mode with fade_time = 0 only, and
\* a fade in is started from duty = min_duty, so every fade runs from its
\* first step to its end under handler ticks alone.
RampCfgs ==
    { FadeCfg(1, 4, 100, 0), FadeCfg(4, 2, 50, 0),
      FadeCfg(2, 1, 100, 50), FadeCfg(8, 8, 100, 0), FadeCfg(3, 3, 100, 0) }

LedAtRest(n) ==
    /\ g_led[n].mode = eLED_MODE_NORMAL
    /\ g_led[n].fade_time = 0

NextRamp ==
    \/ \E timer_ok \in BOOLEAN, gpio_ok \in BOOLEAN : LedInit(timer_ok, gpio_ok)
    \/ LedHndl
    \/ \E state \in LedStates : LedAtRest(0) /\ LedSet(0, state)
    \/ /\ LedAtRest(0)
       /\ g_led[0].duty = g_led[0].min_duty
       /\ LedSetSmooth(0, eLED_ON)
    \/ LedAtRest(0) /\ LedSetSmooth(0, eLED_OFF)
    \/ \E c \in RampCfgs : LedAtRest(0) /\ LedSetFadeCfg(0, << c >>)

SpecRamp == Init /\ [][NextRamp]_vars

----------------------------------------------------------------------------
(* Properties *)

\* the last API call was an accepted led_hndl
Ticked == call.name = "led_hndl" /\ status = eLED_OK

\* the step is an accepted call of led_hndl
Tick == call'.name = "led_hndl" /\ status' = eLED_OK /\ gb_is_init

\* the step is a call of API function name addressed to LED n
Calls(name, n) == call'.name = name /\ call'.num = n

\* C1 as stated: after every led_hndl tick following any sequence of
\* accepted commands, led_set_fade_cfg among them, the duty of every LED lies
\* between its min_duty and its max_duty.
C1_DutyWithinLimits ==
    Ticked => \A n \in LedNum : /\ f32_le(g_led[n].min_duty, g_led[n].duty)
                                /\ f32_le(g_led[n].duty, g_led[n].max_duty)

\* C2: while the module is not initialised (before led_init and after
\* led_deinit) every operation other than led_init, led_deinit and
\* led_is_init, led_hndl and calls with an LED index out of range included,
\* returns eLED_ERROR_INIT, changes no LED record and calls no driver.
C2_UninitRefusesAll ==
    [][~gb_is_init /\ call'.name \notin { "led_init", "led_deinit", "led_is_init" } =>
          /\ status' = eLED_ERROR_INIT
          /\ g_led' = g_led
          /\ io' = <<>>
          /\ ll_out' = ll_out
          /\ ~gb_is_init']_vars

\* after led_init and led_deinit, led_blink with an index out of range
\* returned eLED_ERROR_INIT
C2_Witness ==
    /\ ~gb_is_init
    /\ drv.timer /\ drv.gpio
    /\ call.name = "led_blink"
    /\ call.num = eLED_NUM_OF
    /\ status = eLED_ERROR_INIT

\* C3: led_blink and led_blink_smooth addressed to an LED whose mode is not
\* NORMAL return an error and leave the whole record unchanged, so a running
\* blink is neither restarted nor re-counted.
C3_BlinkRefusedWhenBusy ==
    [][\A n \in LedNum :
          /\ Calls("led_blink", n) \/ Calls("led_blink_smooth", n)
          /\ g_led[n].mode # eLED_MODE_NORMAL
          =>  /\ status' = eLED_ERROR
              /\ g_led' = g_led]_vars

\* led_blink was refused on LED 0 in the second period of a 2X blink
C3_Witness ==
    /\ call.name = "led_blink"
    /\ call.num = 0
    /\ call.blink = eLED_BLINK_CONTINUOUS
    /\ status = eLED_ERROR
    /\ g_led[0].mode = eLED_MODE_BLINK
    /\ g_led[0].blink_cnt = 0
    /\ g_led[0].per_time = 1

\* C4: led_set on an initialised module is accepted in every mode: it returns
\* eLED_OK, sets the mode to NORMAL and the duty to max_duty for eLED_ON and
\* to min_duty for eLED_OFF, whatever blink or fade was in progress.
C4_SetAlwaysAccepted ==
    [][\A n \in LedNum :
          Calls("led_set", n) /\ gb_is_init =>
              /\ status' = eLED_OK
              /\ g_led'[n].mode = eLED_MODE_NORMAL
              /\ g_led'[n].max_duty = g_led[n].max_duty
              /\ g_led'[n].min_duty = g_led[n].min_duty
              /\ g_led'[n].duty = IF call'.state = eLED_ON
                                  THEN g_led[n].max_duty
                                  ELSE g_led[n].min_duty]_vars

\* led_set( OFF ) ended a smooth blink of LED 0 whose duty was above min_duty
C4_Witness ==
    /\ call.name = "led_set"
    /\ call.state = eLED_OFF
    /\ status = eLED_OK
    /\ obs[0].start_mode = eLED_MODE_FADE_BLINK
    /\ f32_gt(obs[0].start_duty, g_led[0].min_duty)
    /\ g_led[0].duty = g_led[0].min_duty
    /\ g_led[0].mode = eLED_MODE_NORMAL

\* C5: led_toggle from any mode sets the mode to NORMAL and, when
\* min_duty < max_duty, turns a duty of max_duty into min_duty and a duty of
\* min_duty into max_duty; hence the second of two consecutive toggles that
\* started from a duty of min_duty or max_duty restores the starting duty.
C5_ToggleFlips ==
    [][\A n \in LedNum :
          Calls("led_toggle", n) /\ gb_is_init =>
              /\ status' = eLED_OK
              /\ g_led'[n].mode = eLED_MODE_NORMAL
              /\ f32_lt(g_led[n].min_duty, g_led[n].max_duty) =>
                    /\ g_led[n].duty = g_led[n].max_duty =>
                          g_led'[n].duty = g_led[n].min_duty
                    /\ g_led[n].duty = g_led[n].min_duty =>
                          g_led'[n].duty = g_led[n].max_duty
                    /\ ( /\ call.name = "led_toggle" /\ call.num = n
                         /\ status = eLED_OK
                         /\ obs[n].start_duty \in { g_led[n].min_duty,
                                                    g_led[n].max_duty } )
                          => g_led'[n].duty = obs[n].start_duty]_vars

\* led_toggle took LED 0 out of a blink, from a min_duty above 0 to max_duty
C5_Witness ==
    /\ call.name = "led_toggle"
    /\ status = eLED_OK
    /\ obs[0].start_mode = eLED_MODE_BLINK
    /\ obs[0].start_duty = g_led[0].min_duty
    /\ f32_gt(g_led[0].min_duty, Percent(0))
    /\ g_led[0].duty = g_led[0].max_duty
    /\ g_led[0].mode = eLED_MODE_NORMAL

\* LED n has seen only handler ticks since led_blink with a finite count
FiniteBlink(n) ==
    obs[n].req = "led_blink" /\ obs[n].blink # eLED_BLINK_CONTINUOUS

\* C6: a finite blink request loading the counter with N, followed only by
\* handler ticks, shows exactly N + 1 ON windows and returns to NORMAL on the
\* (N + 1)-th period-elapsed tick: while the mode is BLINK at most N periods
\* have elapsed and the counter holds what is left of N, and once the mode is
\* NORMAL exactly N + 1 periods have elapsed and N + 1 ON windows were shown.
C6_FiniteBlinkLength ==
    \A n \in LedNum :
        FiniteBlink(n) =>
            LET N == obs[n].blink
            IN  /\ g_led[n].mode \in { eLED_MODE_BLINK, eLED_MODE_NORMAL }
                /\ g_led[n].mode = eLED_MODE_BLINK =>
                      /\ obs[n].periods <= N
                      /\ g_led[n].blink_cnt = N - obs[n].periods
                      /\ obs[n].pulses <= N + 1
                /\ g_led[n].mode = eLED_MODE_NORMAL =>
                      /\ obs[n].periods = N + 1
                      /\ obs[n].pulses = N + 1

\* a 5X blink of LED 0 has run to its end
C6_Witness ==
    /\ FiniteBlink(0)
    /\ obs[0].blink = eLED_BLINK_5X
    /\ g_led[0].mode = eLED_MODE_NORMAL
    /\ obs[0].pulses = 5
    /\ Ticked

\* C7: after led_blink or led_blink_smooth with the continuous count and
\* then only handler ticks, however many, the counter stays at the sentinel
\* and the mode stays BLINK, respectively FADE_BLINK.
C7_ContinuousBlinkStays ==
    \A n \in LedNum :
        /\ obs[n].req = "led_blink" /\ obs[n].blink = eLED_BLINK_CONTINUOUS =>
              /\ g_led[n].mode = eLED_MODE_BLINK
              /\ g_led[n].blink_cnt = LED_BLINK_CNT_CONT_VAL
        /\ obs[n].req = "led_blink_smooth" /\ obs[n].blink = eLED_BLINK_CONTINUOUS =>
              /\ g_led[n].mode = eLED_MODE_FADE_BLINK
              /\ g_led[n].blink_cnt = LED_BLINK_CNT_CONT_VAL

\* a continuous blink has gone through more periods than any finite count gives
C7_Witness ==
    /\ obs[0].req = "led_blink"
    /\ obs[0].blink = eLED_BLINK_CONTINUOUS
    /\ obs[0].periods > eLED_BLINK_CONTINUOUS
    /\ g_led[0].mode = eLED_MODE_BLINK

\* C8 as stated: in BLINK mode with on_time a and period p, in ticks,
\* 0 < a < p, the ON windows start exactly p ticks apart, the duty is max_duty
\* for a ticks and min_duty for p - a ticks: after tick t of the blink the
\* duty is max_duty when (t - 1) mod p < a and min_duty otherwise.
C8_WindowsEveryPeriod ==
    \A n \in LedNum :
        /\ obs[n].req = "led_blink"
        /\ g_led[n].mode = eLED_MODE_BLINK
        /\ obs[n].age >= 1
        /\ obs[n].age < MaxAge
        /\ 0 < g_led[n].on_time
        =>  g_led[n].duty =
                IF ((obs[n].age - 1) % g_led[n].period) < g_led[n].on_time
                THEN g_led[n].max_duty
                ELSE g_led[n].min_duty

\* C9: on each tick in BLINK mode the duty is set to max_duty when the
\* per_time the tick starts with is below on_time, and to min_duty otherwise.
C9_BlinkTickDuty ==
    [][\A n \in LedNum :
          Tick /\ g_led[n].mode = eLED_MODE_BLINK =>
              g_led'[n].duty = IF g_led[n].per_time < g_led[n].on_time
                               THEN g_led[n].max_duty
                               ELSE g_led[n].min_duty]_vars

\* a tick of a blink has set the duty of LED 0 to min_duty, on-time being over
C9_Witness ==
    /\ Ticked
    /\ obs[0].req = "led_blink"
    /\ obs[0].age = 2
    /\ g_led[0].on_time = 1
    /\ g_led[0].period = 3
    /\ g_led[0].duty = g_led[0].min_duty
    /\ f32_lt(g_led[0].min_duty, g_led[0].max_duty)

\* C10 as stated: in a fade-in started from a duty of min_duty the duty never
\* exceeds max_duty after a tick, no tick lowers it, and on the tick that
\* moves the mode from FADE_IN to NORMAL the duty is max_duty and fade_time 0.
C10_FadeInMonotone ==
    [][\A n \in LedNum :
          /\ Tick
          /\ g_led[n].mode = eLED_MODE_FADE_IN
          /\ obs[n].req = "led_set_smooth"
          /\ obs[n].start_duty = g_led[n].min_duty
          =>  /\ f32_le(g_led'[n].duty, g_led[n].max_duty)
              /\ f32_ge(g_led'[n].duty, g_led[n].duty)
              /\ g_led'[n].mode = eLED_MODE_NORMAL =>
                    /\ g_led'[n].duty = g_led[n].max_duty
                    /\ g_led'[n].fade_time = 0]_vars

\* the duty the fade-out step computes from record l, before it is limited
FadeOutStepDuty(l) ==
    IF l.fade_out_time - l.fade_time > 0
    THEN f32_sub(l.duty,
                 f32_mul(l.fade_out_k,
                         f32((l.fade_out_time - l.fade_time) * LED_HNDL_PERIOD_S)))
    ELSE l.min_duty

\* C11: during a fade-out the duty is never below min_duty after a tick; on
\* the tick that moves the mode from FADE_OUT to NORMAL the duty is min_duty
\* and fade_time is 0; and the mode leaves FADE_OUT only on a tick whose
\* step duty is no more than the epsilon above min_duty.
C11_FadeOutFloor ==
    [][\A n \in LedNum :
          Tick /\ g_led[n].mode = eLED_MODE_FADE_OUT =>
              /\ f32_ge(g_led'[n].duty, g_led[n].min_duty)
              /\ g_led'[n].mode \in { eLED_MODE_FADE_OUT, eLED_MODE_NORMAL }
              /\ g_led'[n].mode = eLED_MODE_NORMAL =>
                    /\ g_led'[n].duty = g_led[n].min_duty
                    /\ g_led'[n].fade_time = 0
              /\ g_led'[n].mode = eLED_MODE_NORMAL <=>
                    f32_le(FadeOutStepDuty(g_led[n]),
                           f32_add(g_led[n].min_duty, f32_0_001))]_vars

\* a fade-out of LED 0 from max_duty has ended after more than two ticks
C11_Witness ==
    /\ Ticked
    /\ obs[0].req = "led_set_smooth"
    /\ obs[0].start_duty = g_led[0].max_duty
    /\ obs[0].age >= 3
    /\ f32_lt(g_led[0].min_duty, g_led[0].max_duty)
    /\ g_led[0].duty = g_led[0].min_duty
    /\ g_led[0].mode = eLED_MODE_NORMAL
    /\ g_led[0].fade_time = 0

\* C12 as stated: if led_hndl keeps being called and no further command is
\* issued, an LED in FADE_IN or FADE_OUT eventually returns to NORMAL, under
\* the defaults of led_init and under every fade configuration that
\* led_set_fade_cfg accepted.
C12_FadesEnd ==
    \A n \in LedNum :
        (g_led[n].mode \in { eLED_MODE_FADE_IN, eLED_MODE_FADE_OUT })
            ~> (g_led[n].mode = eLED_MODE_NORMAL)

\* C14: on every handler tick active_time grows by one handler period, or
\* stays at the ceiling LED_TIME_LIMIT_S, when the duty the tick produced is
\* at least max_duty / 2, and becomes 0 when it is below; it never decreases
\* while the duty is at least max_duty / 2 and never exceeds the ceiling.
C14_ActiveTime ==
    [][\A n \in LedNum :
          Tick =>
              /\ g_led'[n].active_time <= LED_TIME_LIMIT_S
              /\ f32_ge(f32_mul(f32(2), g_led'[n].duty), g_led'[n].max_duty) =>
                    /\ g_led'[n].active_time =
                          Min(g_led[n].active_time + LED_HNDL_PERIOD_S,
                              LED_TIME_LIMIT_S)
                    /\ g_led'[n].active_time >= g_led[n].active_time
              /\ f32_lt(f32_mul(f32(2), g_led'[n].duty), g_led'[n].max_duty) =>
                    g_led'[n].active_time = 0]_vars

\* a tick has left the active_time of LED 0 at the ceiling it had reached
C14_Witness ==
    /\ Ticked
    /\ g_led[0].active_time = LED_TIME_LIMIT_S
    /\ g_led[0].fade_time = LED_TIME_LIMIT_S
    /\ f32_ge(f32_mul(f32(2), g_led[0].duty), g_led[0].max_duty)

\* the duty the fade-in step leaves in record l
FadeInStepDuty(l) ==
    LET step == f32_mul(l.fade_in_k, f32(l.fade_time * LED_HNDL_PERIOD_S))
    IN  IF f32_le(f32_add(l.duty, step), l.max_duty)
        THEN f32_add(l.duty, step)
        ELSE l.max_duty

\* C13 as stated: in FADE_BLINK mode each tick runs one fade-in step when
\* per_time < on_time and one fade-out step otherwise, and the mode leaves
\* FADE_BLINK only on a period-elapsed tick that finds the blink counter
\* expired, or through led_set or led_toggle (led_deinit, which calls
\* led_set, is let through as well).
C13_FadeBlinkLeaves ==
    [][\A n \in LedNum :
          g_led[n].mode = eLED_MODE_FADE_BLINK =>
              /\ Tick =>
                    g_led'[n].duty =
                        IF g_led[n].per_time < g_led[n].on_time
                        THEN FadeInStepDuty(g_led[n])
                        ELSE IF led_above_min(FadeOutStepDuty(g_led[n]),
                                              g_led[n].min_duty)
                             THEN FadeOutStepDuty(g_led[n])
                             ELSE g_led[n].min_duty
              /\ g_led'[n].mode # eLED_MODE_FADE_BLINK =>
                    \/ /\ Tick
                       /\ g_led[n].per_time >= g_led[n].period
                       /\ g_led[n].blink_cnt = 0
                    \/ Calls("led_set", n)
                    \/ Calls("led_toggle", n)
                    \/ call'.name = "led_deinit"]_vars

\* C15 as stated: the active time is the time the LED has been turned ON:
\* after a handler tick on which the LED is OFF (mode NORMAL, duty equal to
\* min_duty) active_time is 0, for every accepted min_duty / max_duty pair.
C15_OffIsNotActive ==
    \A n \in LedNum :
        /\ Ticked
        /\ g_led[n].mode = eLED_MODE_NORMAL
        /\ g_led[n].duty = g_led[n].min_duty
        /\ f32_lt(g_led[n].min_duty, g_led[n].max_duty)
        =>  g_led[n].active_time = 0

\* the calls of driver function fn among the driver calls of the last API call
DrvCalls(fn) == { i \in DOMAIN io : io[i].fn = fn }

\* C16: the level given to the GPIO driver for a GPIO-driven LED is HIGH
\* exactly when (duty >= max_duty) differs from (polarity is active-low);
\* every tick gives each GPIO-driven LED its level.
C16_GpioLevel ==
    /\ \A i \in DrvCalls("gpio_set") :
          LET n == io[i].led
          IN  /\ gp_cfg_table[1][n].drv_type = eLED_DRV_GPIO
              /\ io[i].val \in { eGPIO_LOW, eGPIO_HIGH }
              /\ io[i].val = eGPIO_HIGH <=>
                    ( f32_ge(g_led[n].duty, g_led[n].max_duty)
                      # (gp_cfg_table[1][n].polarity = eLED_POL_ACTIVE_LOW) )
    /\ Ticked =>
          \A n \in LedNum :
              gp_cfg_table[1][n].drv_type = eLED_DRV_GPIO =>
                  \E i \in DrvCalls("gpio_set") : io[i].led = n

\* a tick gave HIGH to the active-low GPIO LED, its duty being below max_duty
C16_Witness ==
    /\ Ticked
    /\ gp_cfg_table[1][1].polarity = eLED_POL_ACTIVE_LOW
    /\ f32_lt(g_led[1].duty, g_led[1].max_duty)
    /\ f32_gt(g_led[1].min_duty, Percent(0))
    /\ \E i \in DrvCalls("gpio_set") : io[i].led = 1 /\ io[i].val = eGPIO_HIGH

\* C17: the value given to the PWM driver for a timer-driven LED is the duty
\* when the polarity is active-high and max(100 - duty, min_duty) when it is
\* active-low; every tick gives each timer-driven LED its value.
C17_PwmValue ==
    /\ \A i \in DrvCalls("timer_pwmo_ch_set") :
          LET n == io[i].led
          IN  /\ gp_cfg_table[1][n].drv_type = eLED_DRV_TIMER_PWM
              /\ io[i].val =
                    IF gp_cfg_table[1][n].polarity = eLED_POL_ACTIVE_LOW
                    THEN IF f32_ge(f32_sub(Percent(100), g_led[n].duty),
                                   g_led[n].min_duty)
                         THEN f32_sub(Percent(100), g_led[n].duty)
                         ELSE g_led[n].min_duty
                    ELSE g_led[n].duty
    /\ Ticked =>
          \A n \in LedNum :
              gp_cfg_table[1][n].drv_type = eLED_DRV_TIMER_PWM =>
                  \E i \in DrvCalls("timer_pwmo_ch_set") : io[i].led = n

\* a tick gave min_duty to the active-low PWM LED, 100 - duty being below it
C17_Witness ==
    /\ Ticked
    /\ gp_cfg_table[1][0].polarity = eLED_POL_ACTIVE_LOW
    /\ f32_lt(f32_sub(Percent(100), g_led[0].duty), g_led[0].min_duty)
    /\ \E i \in DrvCalls("timer_pwmo_ch_set") :
          io[i].led = 0 /\ io[i].val = g_led[0].min_duty

\* C18: led_init called while the module is initialised returns eLED_OK and
\* does nothing: every LED record, a blink or fade in progress and a changed
\* fade configuration included, is left as it is, and neither a driver init
\* nor a driver set call is made.
C18_InitAgainNoOp ==
    [][call'.name = "led_init" /\ gb_is_init =>
          /\ status' = eLED_OK
          /\ gb_is_init'
          /\ g_led' = g_led
          /\ gp_cfg_table' = gp_cfg_table
          /\ io' = <<>>
          /\ ll_out' = ll_out
          /\ drv' = drv]_vars

\* led_init returned without a driver call while LED 0 was in a fade blink
\* under a changed fade configuration
C18_Witness ==
    /\ call.name = "led_init"
    /\ gb_is_init
    /\ status = eLED_OK
    /\ io = <<>>
    /\ g_led[0].mode = eLED_MODE_FADE_BLINK
    /\ g_led[0].min_duty = Percent(50)
    /\ g_led[0].per_time > 0

\* the driver calls led_init makes for LED n, written out from its
\* configuration row: the initial duty is 100 for ON and 0 for OFF, and a
\* row that names neither driver gets no call
InitialOutput(n, row) ==
    LET on  == row.initial_state = eLED_ON
        low == row.polarity = eLED_POL_ACTIVE_LOW
    IN  IF row.drv_type = eLED_DRV_TIMER_PWM
        THEN << [ fn |-> "timer_pwmo_ch_set", led |-> n,
                  val |-> IF on # low THEN Percent(100) ELSE Percent(0) ] >>
        ELSE IF row.drv_type = eLED_DRV_GPIO
        THEN << [ fn |-> "gpio_set", led |-> n,
                  val |-> IF on # low THEN eGPIO_HIGH ELSE eGPIO_LOW ] >>
        ELSE <<>>

\* C19: after a successful led_init from the uninitialised state (the first
\* one, or one after led_deinit) every LED has mode NORMAL, max_duty 100,
\* min_duty 0, fade_time, per_time, active_time and blink_cnt 0, duty equal to
\* max_duty if its initial_state is ON and to min_duty otherwise, and that
\* duty has been given to its low level driver.
C19_InitSetsUp ==
    [][call'.name = "led_init" /\ ~gb_is_init /\ status' = eLED_OK =>
          /\ gb_is_init'
          /\ \A n \in LedNum :
                LET l   == g_led'[n]
                    row == gp_cfg_table'[1][n]
                IN  /\ l.mode = eLED_MODE_NORMAL
                    /\ l.max_duty = Percent(100)
                    /\ l.min_duty = Percent(0)
                    /\ l.fade_time = 0
                    /\ l.per_time = 0
                    /\ l.active_time = 0
                    /\ l.blink_cnt = 0
                    /\ l.duty = IF row.initial_state = eLED_ON
                                THEN l.max_duty ELSE l.min_duty
                    /\ \E i \in DOMAIN io' :
                          << io'[i] >> = InitialOutput(n, row)
                    /\ ll_out'[n] = InitialOutput(n, row)]_vars

\* led_init succeeded on the table whose LED 0 starts ON, active-low
C19_Witness ==
    /\ call.name = "led_init"
    /\ status = eLED_OK
    /\ gb_is_init
    /\ io # <<>>
    /\ gp_cfg_table[1][0].initial_state = eLED_ON
    /\ g_led[0].duty = Percent(100)
    /\ ll_out[0] = << [ fn |-> "timer_pwmo_ch_set", led |-> 0,
                        val |-> Percent(0) ] >>

\* C20: if the configuration table is missing or the init of a low level
\* driver (timer or GPIO) fails, led_init returns eLED_ERROR_INIT, the module
\* stays uninitialised, no LED output is driven, led_is_init reports false
\* and every command returns eLED_ERROR_INIT until an init succeeds.
C20_FailedInit ==
    [][/\ ( /\ call'.name = "led_init"
            /\ ~gb_is_init
            /\ led_cfg_table = <<>> \/ ~drv'.timer \/ ~drv'.gpio )
          =>  /\ status' = eLED_ERROR_INIT
              /\ ~gb_is_init'
              /\ g_led' = g_led
              /\ ll_out' = ll_out
              /\ \A i \in DOMAIN io' : io'[i].led = NA
       /\ ( ~gb_is_init /\ call'.name = "led_is_init" /\ call'.ptr )
          =>  status' = eLED_OK /\ out' = << FALSE >>
       /\ ( /\ ~gb_is_init
            /\ call'.name \notin { "led_init", "led_deinit", "led_is_init" } )
          =>  status' = eLED_ERROR_INIT /\ ~gb_is_init']_vars

\* after a led_init on which timer_init succeeded and gpio_init failed,
\* led_is_init reported false
C20_Witness ==
    /\ call.name = "led_is_init"
    /\ call.ptr
    /\ out = << FALSE >>
    /\ led_cfg_table # <<>>
    /\ gp_cfg_table # <<>>
    /\ drv.timer /\ ~drv.gpio
    /\ \A n \in LedNum : ll_out[n] = <<>>

\* C21: led_deinit on an initialised module returns eLED_OK, puts every LED
\* record in mode NORMAL with duty max_duty or min_duty by its configured
\* initial_state, whatever blink or fade was in progress, and clears the
\* initialised flag; on an uninitialised module it returns eLED_OK and
\* changes nothing.
C21_Deinit ==
    [][call'.name = "led_deinit" =>
          /\ status' = eLED_OK
          /\ ~gb_is_init'
          /\ io' = <<>>
          /\ gb_is_init =>
                \A n \in LedNum :
                    /\ g_led'[n] =
                          [g_led[n] EXCEPT
                              !.mode = eLED_MODE_NORMAL,
                              !.duty = IF gp_cfg_table[1][n].initial_state = eLED_ON
                                       THEN g_led[n].max_duty
                                       ELSE g_led[n].min_duty]
          /\ ~gb_is_init => g_led' = g_led /\ ll_out' = ll_out]_vars

\* led_deinit left LED 0, configured to start ON, at its changed max_duty of
\* 50 after the LED had been given a continuous blink
C21_Witness ==
    /\ call.name = "led_deinit"
    /\ status = eLED_OK
    /\ ~gb_is_init
    /\ gp_cfg_table # <<>>
    /\ gp_cfg_table[1][0].initial_state = eLED_ON
    /\ g_led[0].mode = eLED_MODE_NORMAL
    /\ g_led[0].max_duty = Percent(50)
    /\ g_led[0].duty = Percent(50)
    /\ g_led[0].blink_cnt = LED_BLINK_CNT_CONT_VAL

\* C22 as stated: led_set_smooth issued while the mode of the LED is BLINK,
\* FADE_BLINK, FADE_IN or FADE_OUT returns an error and leaves the mode and
\* the rest of the record unchanged.
C22_SmoothRefusedWhenBusy ==
    [][\A n \in LedNum :
          /\ gb_is_init
          /\ Calls("led_set_smooth", n)
          /\ g_led[n].mode # eLED_MODE_NORMAL
          =>  /\ status' # eLED_OK
              /\ g_led' = g_led]_vars

\* C23: led_set_fade_cfg issued while the LED is in FADE_IN, FADE_OUT, BLINK
\* or FADE_BLINK returns an error and leaves the record unchanged; accepted,
\* it changes max_duty, min_duty, fade_in_k, fade_out_k and fade_out_time
\* only.
C23_FadeCfgOnlyInNormal ==
    [][\A n \in LedNum :
          gb_is_init /\ Calls("led_set_fade_cfg", n) =>
              /\ g_led[n].mode # eLED_MODE_NORMAL =>
                    status' = eLED_ERROR /\ g_led' = g_led
              /\ status' = eLED_OK =>
                    /\ g_led[n].mode = eLED_MODE_NORMAL
                    /\ g_led' = [g_led EXCEPT ![n] =
                          [@ EXCEPT !.max_duty = g_led'[n].max_duty,
                                    !.min_duty = g_led'[n].min_duty,
                                    !.fade_in_k = g_led'[n].fade_in_k,
                                    !.fade_out_k = g_led'[n].fade_out_k,
                                    !.fade_out_time = g_led'[n].fade_out_time]]
                    /\ g_led'[n].max_duty = call'.cfg[1].max_duty
                    /\ g_led'[n].min_duty = call'.cfg[1].min_duty]_vars

\* led_set_fade_cfg was refused during a fade in that had left the minimum,
\* the record still holding the default limits
C23_Witness ==
    /\ call.name = "led_set_fade_cfg"
    /\ call.num = 0
    /\ status = eLED_ERROR
    /\ gb_is_init
    /\ g_led[0].mode = eLED_MODE_FADE_IN
    /\ g_led[0].fade_time > 0
    /\ g_led[0].min_duty = Percent(0)
    /\ call.cfg[1].min_duty = Percent(50)

\* the rate the fade durations give: 2 * ( max_duty - min_duty ) / time^2
DerivedRate(l, time) ==
    f32_div(f32_mul(f32(2), f32_sub(l.max_duty, l.min_duty)),
            f32_mul(f32(time), f32(time)))

\* C24 as stated: in every state of the initialised module, the one right
\* after led_init with its default fade times of 1 second included, the
\* rates of every LED are 2 * ( max_duty - min_duty ) / fade time^2 for its
\* current max_duty, min_duty and fade times.
C24_RatesDerived ==
    gb_is_init =>
        \A n \in LedNum :
            /\ g_led[n].fade_out_k = DerivedRate(g_led[n], g_led[n].fade_out_time)
            /\ call.name = "led_init" =>
                  g_led[n].fade_in_k = DerivedRate(g_led[n], LED_FADE_IN_TIME_S)
            /\ call.name = "led_set_fade_cfg" /\ call.num = n /\ status = eLED_OK =>
                  g_led[n].fade_in_k = DerivedRate(g_led[n], call.cfg[1].fade_in_time)

\* the step is a call with an LED index out of range, or a blink request
\* whose on_time is not below its period
BadArgs ==
    \/ call'.num # NA /\ call'.num >= eLED_NUM_OF
    \/ /\ call'.name \in { "led_blink", "led_blink_smooth" }
       /\ call'.on_time >= call'.period

\* C25: on an initialised module every command or query given an LED index
\* >= eLED_NUM_OF, and led_blink / led_blink_smooth given on_time >= period,
\* return eLED_ERROR and change no LED record.
C25_InvalidArgument ==
    [][gb_is_init /\ BadArgs =>
          /\ status' = eLED_ERROR
          /\ g_led' = g_led
          /\ out' = <<>>
          /\ ~fault']_vars

\* led_blink_smooth with on_time above period was refused on an idle LED
C25_Witness ==
    /\ gb_is_init
    /\ call.name = "led_blink_smooth"
    /\ call.num = 0
    /\ call.on_time > call.period
    /\ status = eLED_ERROR
    /\ g_led[0].mode = eLED_MODE_NORMAL

\* the queries that report through an output pointer
Queries == { "led_is_init", "led_get_active_time", "led_is_idle", "led_is_on" }

\* C26 as stated: every query called with a NULL output pointer returns an
\* error status and writes nothing through the pointer.
C26_NullPointerRefused ==
    [][call'.name \in Queries /\ ~call'.ptr =>
          /\ status' # eLED_OK
          /\ out' = <<>>
          /\ ~fault']_vars

\* C27: on an initialised module and a valid LED, led_is_idle reports true
\* exactly when the mode is NORMAL and led_is_on reports true exactly when
\* the mode is not NORMAL or the duty is not zero; both leave the records
\* unchanged.
C27_IdleAndOn ==
    [][\A n \in LedNum :
          /\ gb_is_init /\ call'.ptr /\ Calls("led_is_idle", n) =>
                /\ status' = eLED_OK
                /\ out' = << g_led[n].mode = eLED_MODE_NORMAL >>
                /\ g_led' = g_led
          /\ gb_is_init /\ call'.ptr /\ Calls("led_is_on", n) =>
                /\ status' = eLED_OK
                /\ out' = << g_led[n].mode # eLED_MODE_NORMAL
                              \/ g_led[n].duty # Percent(0) >>
                /\ g_led' = g_led]_vars

\* led_is_on reported true for a blinking LED whose duty is zero
C27_Witness ==
    /\ gb_is_init
    /\ call.name = "led_is_on"
    /\ call.num = 0
    /\ status = eLED_OK
    /\ out = << TRUE >>
    /\ g_led[0].mode = eLED_MODE_BLINK
    /\ g_led[0].duty = Percent(0)

\* the driver calls that carry the duty and max_duty of record l of LED n:
\* one to the driver its row names, none if the row names neither driver
DutyOutput(n, row, l) ==
    LET low == row.polarity = eLED_POL_ACTIVE_LOW
    IN  IF row.drv_type = eLED_DRV_TIMER_PWM
        THEN << [ fn |-> "timer_pwmo_ch_set", led |-> n,
                  val |-> IF low
                          THEN IF f32_lt(f32_sub(Percent(100), l.duty), l.min_duty)
                               THEN l.min_duty ELSE f32_sub(Percent(100), l.duty)
                          ELSE l.duty ] >>
        ELSE IF row.drv_type = eLED_DRV_GPIO
        THEN << [ fn |-> "gpio_set", led |-> n,
                  val |-> IF f32_ge(l.duty, l.max_duty) # low
                          THEN eGPIO_HIGH ELSE eGPIO_LOW ] >>
        ELSE <<>>

\* C28: each led_hndl call on an initialised module handles every LED once,
\* in the order: step of the mode, one driver call carrying the duty that
\* step produced, update of the blink timer, update of the active time.  So
\* the driver calls are one per LED in LED order with the new duty, a blink
\* step has seen the blink timer as it was before the tick, and the active
\* time is counted on the new duty.
C28_HandlerOrder ==
    [][Tick =>
          /\ Len(io') = eLED_NUM_OF
          /\ \A n \in LedNum :
                /\ << io'[n + 1] >> = DutyOutput(n, gp_cfg_table[1][n], g_led'[n])
                /\ g_led[n].mode = eLED_MODE_BLINK /\ g_led'[n].mode = eLED_MODE_BLINK =>
                      g_led'[n].duty = IF g_led[n].per_time < g_led[n].on_time
                                       THEN g_led[n].max_duty
                                       ELSE g_led[n].min_duty
                /\ g_led'[n].per_time = IF g_led[n].per_time >= g_led[n].period
                                        THEN 0
                                        ELSE g_led[n].per_time + LED_HNDL_PERIOD_S
                /\ g_led'[n].active_time =
                      IF f32_ge(f32_mul(f32(2), g_led'[n].duty), g_led'[n].max_duty)
                      THEN LED_TIME_LIM(g_led[n].active_time + LED_HNDL_PERIOD_S)
                      ELSE 0]_vars

\* the first tick of a blink started on a dark LED: the duty went to
\* max_duty, was sent to the PWM driver, and was counted as active time
C28_Witness ==
    /\ Ticked
    /\ g_led[0].mode = eLED_MODE_BLINK
    /\ obs[0].age = 1
    /\ obs[0].start_duty = Percent(0)
    /\ g_led[0].duty = g_led[0].max_duty
    /\ f32_gt(g_led[0].duty, Percent(0))
    /\ g_led[0].per_time = LED_HNDL_PERIOD_S
    /\ g_led[0].active_time = LED_HNDL_PERIOD_S
    /\ io[1].val = IF gp_cfg_table[1][0].polarity = eLED_POL_ACTIVE_LOW
                   THEN f32_sub(Percent(100), g_led[0].duty) ELSE g_led[0].duty

\* the driver calls of the step that set an LED output
SetCalls == { i \in DOMAIN io' : io'[i].led # NA }

\* C29: no GPIO level and no PWM duty is set while the module is not
\* initialised: a set call is made either by an initialised module or by the
\* led_init that has first called timer_init and gpio_init, both with
\* success; after led_deinit none is made until the next successful led_init.
C29_NoOutputUninit ==
    [][/\ \A i \in SetCalls :
              /\ gb_is_init'
              /\ \/ gb_is_init
                 \/ /\ call'.name = "led_init"
                    /\ i > 2
                    /\ io'[1] = [ fn |-> "timer_init", led |-> NA, val |-> "ok" ]
                    /\ io'[2] = [ fn |-> "gpio_init", led |-> NA, val |-> "ok" ]
       /\ ~gb_is_init' => ll_out' = ll_out]_vars

\* after led_deinit the handler was called and refused, the outputs being
\* those of the last tick before the deinit
C29_Witness ==
    /\ ~gb_is_init
    /\ call.name = "led_hndl"
    /\ status = eLED_ERROR_INIT
    /\ io = <<>>
    /\ gp_cfg_table # <<>>
    /\ drv.timer /\ drv.gpio
    /\ g_led[0].mode = eLED_MODE_NORMAL
    /\ g_led[0].blink_cnt = LED_BLINK_CNT_CONT_VAL

\* C30 as stated: after led_deinit the level or duty last given to the
\* driver of each LED is the one of its configured initial state: what
\* led_set_low gives the driver for the record led_deinit left, or for that
\* record with the limits 100 and 0 that led_init had set.
C30_DeinitRestoresOutput ==
    [][call'.name = "led_deinit" /\ gb_is_init =>
          \A n \in LedNum :
              LET on == gp_cfg_table[1][n].initial_state = eLED_ON
                  fresh == [g_led'[n] EXCEPT
                               !.max_duty = Percent(100),
                               !.min_duty = Percent(0),
                               !.duty = IF on THEN Percent(100) ELSE Percent(0)]
              IN  /\ ll_out'[n] # <<>>
                  /\ \/ ll_out'[n] = led_set_low(gp_cfg_table[1], n, g_led'[n])
                     \/ ll_out'[n] = led_set_low(gp_cfg_table[1], n, fresh)]_vars

\* C31: a handler tick on an LED in NORMAL mode changes nothing of its
\* record but per_time and active_time, and gives the unchanged duty to the
\* driver again; so after led_set or led_toggle the duty and the mode stay
\* as they are over any number of ticks.
C31_NormalTickKeeps ==
    [][Tick =>
          \A n \in LedNum :
              g_led[n].mode = eLED_MODE_NORMAL =>
                  /\ g_led'[n] = [g_led[n] EXCEPT
                                     !.per_time = g_led'[n].per_time,
                                     !.active_time = g_led'[n].active_time]
                  /\ << io'[n + 1] >> =
                        DutyOutput(n, gp_cfg_table[1][n], g_led[n])]_vars

\* ticks after led_toggle had switched on an LED whose minimum is 50: the
\* LED is still at max_duty in NORMAL mode, counted active twice
C31_Witness ==
    /\ Ticked
    /\ obs[0].req = "led_toggle"
    /\ obs[0].start_duty = Percent(50)
    /\ g_led[0].mode = eLED_MODE_NORMAL
    /\ g_led[0].min_duty = Percent(50)
    /\ g_led[0].duty = g_led[0].max_duty
    /\ g_led[0].active_time >= 2 * LED_HNDL_PERIOD_S

\* the modes an LED is ever in
LedModes ==
    { eLED_MODE_NORMAL, eLED_MODE_FADE_IN, eLED_MODE_FADE_OUT,
      eLED_MODE_BLINK, eLED_MODE_FADE_BLINK }

\* C32: the mode of every LED is always one of NORMAL, FADE_IN, FADE_OUT,
\* BLINK, FADE_BLINK, never FADE_TOGGLE, and a handler tick either keeps the
\* mode or changes it to NORMAL; it never moves an LED out of NORMAL.
C32_TickOnlyToNormal ==
    [][\A n \in LedNum :
          /\ g_led[n].mode \in LedModes
          /\ g_led'[n].mode \in LedModes
          /\ call'.name = "led_hndl" =>
                \/ g_led'[n].mode = g_led[n].mode
                \/ g_led'[n].mode = eLED_MODE_NORMAL]_vars

\* a tick ended a blink of two pulses: the LED is back in NORMAL with no
\* command after the led_blink
C32_Witness ==
    /\ Ticked
    /\ obs[0].req = "led_blink"
    /\ obs[0].blink = eLED_BLINK_2X
    /\ g_led[0].blink_cnt = 0
    /\ g_led[0].mode = eLED_MODE_NORMAL

\* module states that differ from the present one in LED m alone: its mode,
\* its duty and its configuration row
OtherLedVaried(m) ==
    { [ g_led |-> [g_led EXCEPT ![m] = [@ EXCEPT !.mode = mode, !.duty = duty]],
        gp_cfg_table |-> << [gp_cfg_table[1] EXCEPT ![m] = row] >> ] :
      mode \in LedModes,
      duty \in { Percent(0), Percent(100) },
      row \in { CfgRow(eLED_DRV_GPIO, eLED_OFF, eLED_POL_ACTIVE_HIGH),
                CfgRow(eLED_DRV_TIMER_PWM, eLED_ON, eLED_POL_ACTIVE_LOW) } }

BlinkModes == { eLED_MODE_BLINK, eLED_MODE_FADE_BLINK }

\* C34: the period event is raised on exactly the handler tick that wraps
\* per_time to 0, never on two ticks in a row, and the blink counter is
\* evaluated (decremented by one, or found expired) on such a tick only.
C34_PeriodEventOnce ==
    [][Tick =>
          \A n \in LedNum :
              g_led[n].mode \in BlinkModes =>
                  /\ led_is_period_time(g_led[n]) <=> g_led'[n].per_time = 0
                  /\ led_is_period_time(g_led[n]) => ~led_is_period_time(g_led'[n])
                  /\ g_led'[n].blink_cnt \in
                        { g_led[n].blink_cnt, g_led[n].blink_cnt - 1 }
                  /\ \/ g_led'[n].blink_cnt # g_led[n].blink_cnt
                     \/ g_led'[n].mode # g_led[n].mode
                     => g_led'[n].per_time = 0]_vars

\* the second wrap of a blink of five pulses: two events counted, the
\* counter down by two
C34_Witness ==
    /\ Ticked
    /\ g_led[0].mode = eLED_MODE_BLINK
    /\ obs[0].blink = eLED_BLINK_5X
    /\ obs[0].periods = 2
    /\ g_led[0].per_time = 0
    /\ g_led[0].blink_cnt = eLED_BLINK_5X - 2

\* C35: the blink counter never underflows: a tick leaves it or takes one
\* off a counter that is neither 0 nor the continuous code, so it is always
\* a requested count or 0xFF, and 0xFF is loaded by a request with
\* eLED_BLINK_CONTINUOUS only.
C35_CounterNoUnderflow ==
    [][\A n \in LedNum :
          /\ g_led'[n].blink_cnt \in
                (0 .. eLED_BLINK_5X) \cup { LED_BLINK_CNT_CONT_VAL }
          /\ call'.name = "led_hndl" =>
                \/ g_led'[n].blink_cnt = g_led[n].blink_cnt
                \/ /\ g_led'[n].blink_cnt = g_led[n].blink_cnt - 1
                   /\ g_led[n].blink_cnt > 0
                   /\ g_led[n].blink_cnt # LED_BLINK_CNT_CONT_VAL
          /\ /\ g_led'[n].blink_cnt = LED_BLINK_CNT_CONT_VAL
             /\ g_led[n].blink_cnt # LED_BLINK_CNT_CONT_VAL
             => /\ call'.name \in { "led_blink", "led_blink_smooth" }
                /\ call'.blink = eLED_BLINK_CONTINUOUS]_vars

\* a blink of five pulses has run out: the counter is 0 and the LED is back
\* in NORMAL, ticked again
C35_Witness ==
    /\ Ticked
    /\ obs[0].req = "led_blink"
    /\ obs[0].blink = eLED_BLINK_5X
    /\ g_led[0].mode = eLED_MODE_NORMAL
    /\ g_led[0].blink_cnt = 0
    /\ g_led[0].per_time > 0

\* C36: when a counted blink in BLINK mode ends by the counter running out,
\* the LED is left off: on the tick that sets the mode to NORMAL the duty is
\* min_duty and is what the driver gets, and so it stays on every later
\* tick until the next command.
C36_BlinkEndsOff ==
    [][\A n \in LedNum :
          /\ Tick /\ g_led[n].mode = eLED_MODE_BLINK
                  /\ g_led'[n].mode = eLED_MODE_NORMAL =>
                /\ g_led[n].blink_cnt = 0
                /\ g_led'[n].duty = g_led'[n].min_duty
          /\ Tick /\ obs'[n].req = "led_blink"
                  /\ g_led'[n].mode = eLED_MODE_NORMAL =>
                /\ g_led'[n].duty = g_led'[n].min_duty
                /\ ll_out'[n] # <<>>
                /\ ll_out'[n] = DutyOutput(n, gp_cfg_table[1][n],
                                  [g_led'[n] EXCEPT !.duty = g_led'[n].min_duty])]_vars

\* the tick after the one that ended a blink of two pulses: the LED is in
\* NORMAL at min_duty
C36_Witness ==
    /\ Ticked
    /\ obs[0].req = "led_blink"
    /\ obs[0].blink = eLED_BLINK_2X
    /\ obs[0].pulses = 2
    /\ g_led[0].mode = eLED_MODE_NORMAL
    /\ g_led[0].duty = g_led[0].min_duty
    /\ g_led[0].per_time = LED_HNDL_PERIOD_S

\* C37 as stated: when a counted smooth blink ends by the counter running
\* out, on the tick that sets the mode to NORMAL the duty is min_duty and
\* fade_time is 0, for every accepted on_time, period and fade configuration.
C37_FadeBlinkEndsOff ==
    [][Tick =>
          \A n \in LedNum :
              /\ g_led[n].mode = eLED_MODE_FADE_BLINK
              /\ g_led'[n].mode = eLED_MODE_NORMAL
              =>  /\ g_led'[n].duty = g_led'[n].min_duty
                  /\ g_led'[n].fade_time = 0]_vars

\* C39: with every accepted fade configuration having
\* 0 <= min_duty < max_duty <= 100 and positive fade times, every value given
\* to the PWM driver, for either polarity, lies within 0 .. 100 percent.
C39_PwmWithinRange ==
    \A i \in DrvCalls("timer_pwmo_ch_set") :
        /\ f32_le(Percent(0), io[i].val)
        /\ f32_le(io[i].val, Percent(100))

\* a tick sent 0 to the active-low PWM LED whose duty of 100 is above the
\* max_duty of 50 set after it was switched on
C39_Witness ==
    /\ Ticked
    /\ gp_cfg_table[1][0].polarity = eLED_POL_ACTIVE_LOW
    /\ g_led[0].duty = Percent(100)
    /\ g_led[0].max_duty = Percent(50)
    /\ \E i \in DrvCalls("timer_pwmo_ch_set") :
          io[i].led = 0 /\ io[i].val = Percent(0)

\* C38 as stated: whenever an LED enters FADE_IN or FADE_OUT through
\* led_set_smooth, fade_time is 0 at the first step of the new ramp, whatever
\* commands came before, led_set or led_toggle in the middle of an earlier
\* fade included.
C38_RampStartsAtZero ==
    [][\A n \in LedNum :
          /\ Calls("led_set_smooth", n)
          /\ status' = eLED_OK
          /\ g_led[n].mode = eLED_MODE_NORMAL
          =>  g_led'[n].fade_time = 0]_vars

\* the rates of record l are the ones led_set_fade_cfg derives, for limits
\* with min_duty < max_duty
RatesSet(l) ==
    /\ f32_le(Percent(0), l.min_duty) /\ f32_lt(l.min_duty, l.max_duty)
    /\ l.fade_out_time >= 1
    /\ l.fade_out_k = led_fade_coef(l.max_duty, l.min_duty, l.fade_out_time)

\* C40: with the rates set by led_set_fade_cfg for 0 <= min_duty < max_duty,
\* a fade in of N tick periods started from min_duty with fade_time = 0 is
\* back in NORMAL on exactly the (N+1)-th tick, and a fade out of M tick
\* periods started with fade_time = 0 is back in NORMAL on the (M+1)-th tick
\* at the latest.  obs[n].age is the number of ticks the fade has seen.
C40_RampLength ==
    [][Tick =>
          \A n \in LedNum :
              RatesSet(g_led[n]) /\ obs[n].req = "led_set_smooth" =>
                  /\ g_led[n].mode = eLED_MODE_FADE_IN =>
                        \A N \in 1 .. MaxTime :
                            g_led[n].fade_in_k
                                = led_fade_coef(g_led[n].max_duty,
                                                g_led[n].min_duty, N)
                            => ( g_led'[n].mode = eLED_MODE_NORMAL
                                 <=> obs[n].age = N * LED_HNDL_PERIOD_S )
                  /\ g_led[n].mode = eLED_MODE_FADE_OUT =>
                        /\ obs[n].age <= g_led[n].fade_out_time
                        /\ obs[n].age = g_led[n].fade_out_time =>
                              g_led'[n].mode = eLED_MODE_NORMAL]_vars

\* a fade in of 8 tick periods has ended on its ninth tick, at max_duty
C40_Witness ==
    /\ Ticked
    /\ obs[0].req = "led_set_smooth"
    /\ obs[0].start_duty = Percent(0)
    /\ obs[0].age = 9
    /\ g_led[0].mode = eLED_MODE_NORMAL
    /\ g_led[0].fade_in_k = led_fade_coef(Percent(100), Percent(0), 8)
    /\ g_led[0].max_duty = Percent(100)
    /\ g_led[0].duty = g_led[0].max_duty
    /\ g_led[0].fade_time = 0

====
